---- MODULE Spec2Model ----
(***************************************************************************)
(* MiniTiktokAutomationSystem: the driver provisioner (browser.py), the    *)
(* session manager (login.py) and the publish workflow (uploader.py) as    *)
(* one sequential state machine.  The browser, the target site, the file   *)
(* system and the clock are the environment: every call into them is a     *)
(* nondeterministic choice over the outcomes the call can have.            *)
(***************************************************************************)
EXTENDS Integers, Sequences, FiniteSets, TLC

VARIABLES
    env,          \* os.environ["SELENIUM_REMOTE_URL"]: Unset, "" or a URL
    videoExists,  \* whether video_path names an existing file
    cookieFile,   \* COOKIE_FILE: [kind: "absent" | "corrupt" | "ok", recs: its records]
    jar,          \* the cookies the browser holds (what get_cookies returns)
    url,          \* the page the browser is on
    driver,       \* BrowserManager.driver: "none", "local" or "remote"
    is_remote,    \* BrowserManager.is_remote: "unset", "T" or "F"
    attempt,      \* create_driver: loop variable of the connection retry
    pc,           \* position of the running code
    stack,        \* return labels of the calls in progress
    ret,          \* value returned by the call that returned last: "none", "T", "F"
    is_docker,    \* ensure_logged_in: local is_docker ("unset", "T", "F")
    cookies,      \* load_cookies: the list read from the file
    ci,           \* load_cookies: index of the record the loop is at
    sel,          \* index of the selector a selector loop is at
    polls,        \* polls made so far by the polling loop that is running
    title,        \* upload_video / _fill_caption argument
    tags,         \* upload_video / _fill_caption argument
    max_length,   \* config["upload"]["max_title_length"]
    full_caption, \* _fill_caption: local full_caption
    entered,      \* text handed to the caption editor: NotEntered or a string
    result,       \* outcome of upload_video: "none", "T", "F" or "raised"; in an
                  \* entry script, how its process ends (see ScriptExit)
    hist,         \* calls, returns and browser/file operations of the running operation
    injected,     \* records handed to driver.add_cookie by the running load_cookies
    rejected,     \* indices of the records whose add_cookie raised
    lastProbe,    \* result of the last is_logged_in of the running ensure_logged_in
    site,         \* how the site answers a probe: "any", or "session" (the login
                  \* indicators are shown exactly when the browser holds the session cookie)
    upload_timeout,   \* config["upload"]["upload_timeout"], in polls of _wait_for_upload
    post_found_count, \* _wait_for_upload: local post_found_count
    seen,         \* what the polls of the running _wait_for_upload observed
    script        \* the entry script that runs: "main" or one of Scripts

vars == << env, videoExists, cookieFile, jar, url, driver, is_remote, attempt,
           pc, stack, ret, is_docker, cookies, ci, sel, polls, title, tags,
           max_length, full_caption, entered, result, hist, injected,
           rejected, lastProbe, site, upload_timeout, post_found_count, seen,
           script >>

-----------------------------------------------------------------------------
(* Bounds of the model *)

MaxCookies == 2       \* longest cookie file drawn
MaxPolls == 2         \* most polls of manual_login before its timeout is taken
MaxTitleLen == 3      \* longest generated title
MaxTags == 2          \* longest generated tag list
MaxCaptionLen == 6    \* largest generated max_title_length
MaxButtons == 3       \* most "post" buttons a poll of _wait_for_upload finds
MaxUploadPolls == 4   \* longest upload timeout drawn, in polls
MaxConfirmPolls == 2  \* polls of _wait_for_post_complete that fit in its timeout
MaxCalls == 6         \* most calls a caller makes on one BrowserManager

-----------------------------------------------------------------------------
(* Values *)

Unset == "<unset>"                 \* os.environ.get(...) returned None
RemoteUrl == "http://selenium:4444"
EnvValues == {Unset, "", RemoteUrl}

NotEntered == "<not entered>"

BaseUrl == "https://www.tiktok.com"
LoginUrl == "https://www.tiktok.com/login"
UploadUrl == "https://www.tiktok.com/creator-center/upload"
Blank == "about:blank"

CookieNames == {"sessionid", "tt_csrf"}
StrippedFields == {"sameSite", "storeId"}

\* A cookie record: a JSON object with name and value and, optionally, the
\* two attributes add_cookie rejects.
Record(n, extra) ==
    [f \in {"name", "value"} \cup extra |->
        CASE f = "name" -> n
          [] f = "value" -> "v"
          [] f = "sameSite" -> "Lax"
          [] f = "storeId" -> "0"]

Records == { Record(n, extra) : n \in CookieNames, extra \in SUBSET StrippedFields }

RECURSIVE SeqsUpTo(_, _)
SeqsUpTo(S, n) ==
    IF n = 0 THEN { << >> }
    ELSE LET shorter == SeqsUpTo(S, n - 1)
         IN  shorter \cup { Append(s, x) : s \in shorter, x \in S }

Absent == [kind |-> "absent", recs |-> << >>]    \* the cookie file does not exist
Corrupt == [kind |-> "corrupt", recs |-> << >>]  \* it exists and json.load raises on it
FileOf(recs) == [kind |-> "ok", recs |-> recs]   \* a JSON array of objects

\* Cookie files of the cookie specification: every list of up to MaxCookies records.
CookieFiles == {Absent, Corrupt} \cup { FileOf(r) : r \in SeqsUpTo(Records, MaxCookies) }

\* What the site leaves in the browser after a login.
SiteJar == << Record("sessionid", {"sameSite"}) >>

\* Cookie files of the workflow specification.
WorkflowCookieFiles ==
    { Absent, Corrupt, FileOf(<< >>),
      FileOf(<< Record("sessionid", {"sameSite", "storeId"}), Record("tt_csrf", {}) >>) }

-----------------------------------------------------------------------------
(* Control *)

\* No poll of _wait_for_upload has looked at the page yet.
NothingSeen == [streak |-> 0, post |-> FALSE, marker |-> FALSE, progress |-> FALSE]

inputs == << env, videoExists, title, tags, max_length, site, upload_timeout, script >>
waitVars == << post_found_count, seen >>
mgr == << driver, is_remote, attempt >>
lcVars == << cookies, ci, injected, rejected >>
capVars == << full_caption, entered >>

Goto(l) == pc' = l /\ UNCHANGED << stack, ret >>
Call(entry, back) == pc' = entry /\ stack' = << back >> \o stack /\ UNCHANGED ret
Return(v) == pc' = Head(stack) /\ stack' = Tail(stack) /\ ret' = v
Log(events) == hist' = hist \o events

\* An exception no enclosing try of the running function catches: it unwinds
\* the calls in progress up to the first caller that handles it.
Raise == pc' = "unwind" /\ UNCHANGED << stack, ret >>

\* Return labels of the calls made inside upload_video's try.
InUploadTry == { "uv_input_ret", "uv_uploaded", "uv_captioned", "uv_clicked", "uv_warned",
                 "uv_confirmed" }

\* Return labels of the calls made inside the try of an entry script's main.
InScriptTry == { "es_created", "es_saved" }

Handled == { "main_uv_ret", "caller_ret" } \cup InUploadTry \cup InScriptTry
HandlerOf(label) ==
    CASE label = "main_uv_ret" -> "main_uv_raised"
      [] label \in InUploadTry -> "uv_except"
      [] label \in InScriptTry -> "es_except"
      [] OTHER -> "caller_raised"

Unwind ==
    /\ pc = "unwind"
    /\ stack # << >>
    /\ stack' = Tail(stack)
    /\ pc' = IF Head(stack) \in Handled THEN HandlerOf(Head(stack)) ELSE "unwind"
    /\ UNCHANGED << inputs, waitVars, cookieFile, jar, url, mgr, ret, is_docker, lcVars, sel,
                    polls, capVars, result, hist, lastProbe >>

-----------------------------------------------------------------------------
(* browser.py: BrowserManager *)

max_retries == 30

\* os.environ.get("SELENIUM_REMOTE_URL") tested for truth: None and "" are false.
SeleniumUrlTruthy(e) == e # Unset /\ e # ""

CreateDriverStart ==
    /\ pc = "cd_start"
    /\ IF SeleniumUrlTruthy(env)
       THEN attempt' = 0 /\ Goto("cd_connect")
       ELSE attempt' = attempt /\ Goto("cd_local")
    /\ UNCHANGED << inputs, waitVars, cookieFile, jar, url, driver, is_remote, is_docker,
                    lcVars, sel, polls, capVars, result, hist, lastProbe >>

CreateDriverConnect_NoSleep ==
    /\ pc = "cd_connect"
    /\ attempt < max_retries
    /\ \E connected \in BOOLEAN :
        IF connected
        THEN /\ driver' = "remote"
             /\ is_remote' = "T"
             /\ attempt' = 0
             /\ Return("T")
             /\ Log(<< "connect:ok" >>)
        ELSE IF attempt < max_retries - 1
        THEN /\ attempt' = attempt + 1
             /\ UNCHANGED << driver, is_remote >>
             /\ Goto("cd_connect")
             /\ Log(<< "connect:fail" >>)
        ELSE /\ UNCHANGED << driver, is_remote, attempt >>
             /\ Raise
             /\ Log(<< "connect:fail" >>)
    /\ UNCHANGED << inputs, waitVars, cookieFile, jar, url, is_docker, lcVars, sel, polls,
                    capVars, result, lastProbe >>

\* One pass of the retry loop: webdriver.Remote(...) connects (break) or
\* raises; a failure before the last attempt is followed by time.sleep(2), the
\* last one by the terminal exception.  The loop variable ends with the function.
CreateDriverConnect ==
    /\ pc = "cd_connect"
    /\ attempt < max_retries
    /\ \E connected \in BOOLEAN :
        IF connected
        THEN /\ driver' = "remote"
             /\ is_remote' = "T"
             /\ attempt' = 0
             /\ Return("T")
             /\ Log(<< "connect:ok" >>)
        ELSE IF attempt < max_retries - 1
        THEN /\ attempt' = attempt + 1
             /\ UNCHANGED << driver, is_remote >>
             /\ Goto("cd_connect")
             /\ Log(<< "connect:fail", "sleep:2" >>)
        ELSE /\ UNCHANGED << driver, is_remote, attempt >>
             /\ Raise
             /\ Log(<< "connect:fail" >>)
    /\ UNCHANGED << inputs, waitVars, cookieFile, jar, url, is_docker, lcVars, sel, polls,
                    capVars, result, lastProbe >>

CreateDriverLocal ==
    /\ pc = "cd_local"
    /\ \E started \in BOOLEAN :
        IF started
        THEN driver' = "local" /\ is_remote' = "F" /\ Return("T")
        ELSE UNCHANGED << driver, is_remote >> /\ Raise
    /\ UNCHANGED << inputs, waitVars, cookieFile, jar, url, attempt, is_docker, lcVars, sel,
                    polls, capVars, result, hist, lastProbe >>

Close_QuitRaisePropagates ==
    /\ pc = "close"
    /\ IF driver = "none"
       THEN Return("none") /\ UNCHANGED << driver, hist >>
       ELSE /\ Log(<< "quit" >>)
            /\ \E raised \in BOOLEAN :
                IF raised THEN Raise /\ UNCHANGED driver
                ELSE Return("none") /\ driver' = "none"
    /\ UNCHANGED << inputs, waitVars, cookieFile, jar, url, is_remote, attempt, is_docker,
                    lcVars, sel, polls, capVars, result, lastProbe >>

\* close(): nothing without a handle; otherwise driver.quit(), whose
\* exception is logged as a warning, and the handle is dropped either way.
Close ==
    /\ pc = "close"
    /\ IF driver = "none"
       THEN UNCHANGED << driver, hist >>
       ELSE /\ Log(<< "quit" >>)
            /\ \E raised \in BOOLEAN : driver' = "none"
    /\ Return("none")
    /\ UNCHANGED << inputs, waitVars, cookieFile, jar, url, is_remote, attempt, is_docker,
                    lcVars, sel, polls, capVars, result, lastProbe >>

-----------------------------------------------------------------------------
(* login.py: LoginManager.is_logged_in *)

NumLoginIndicators == 3

B2S(b) == IF b THEN "T" ELSE "F"

\* The probe's result leaves is_logged_in: every return path records it.
ProbeReturn(v) ==
    /\ Return(v)
    /\ lastProbe' = v

\* driver.get(base_url): the page loads, or get raises and the outer except
\* turns it into False.
IsLoggedInGet ==
    /\ pc = "ili_get"
    /\ \E loaded \in BOOLEAN :
        IF loaded
        THEN /\ url' = BaseUrl
             /\ sel' = 1
             /\ Goto("ili_find")
             /\ Log(<< "get:base" >>)
             /\ UNCHANGED lastProbe
        ELSE /\ UNCHANGED << url, sel >>
             /\ ProbeReturn("F")
             /\ Log(<< "get:base", "is_logged_in:F" >>)
    /\ UNCHANGED << inputs, waitVars, cookieFile, jar, mgr, is_docker, lcVars, polls,
                    capVars, result >>

\* The session cookie the site recognises a logged-in browser by.
SessionHeld(js) ==
    \E i \in 1..Len(js) :
        /\ js[i]["name"] = "sessionid"
        /\ "value" \in DOMAIN js[i]
        /\ js[i]["value"] = "v"

\* What find_element can answer for a login indicator.
IndicatorAnswers == IF site = "session" THEN { SessionHeld(jar) } ELSE BOOLEAN

IsLoggedInFind_RaiseEndsProbe ==
    /\ pc = "ili_find"
    /\ \E found \in IndicatorAnswers :
        /\ ProbeReturn(B2S(found))
        /\ Log(<< "is_logged_in:" \o B2S(found) >>)
        /\ UNCHANGED sel
    /\ UNCHANGED << inputs, waitVars, cookieFile, jar, url, mgr, is_docker, lcVars, polls,
                    capVars, result >>

\* find_element for selector number sel: an element, or it raises and the
\* loop continues with the next selector.
IsLoggedInFind ==
    /\ pc = "ili_find"
    /\ \E found \in IndicatorAnswers :
        IF found
        THEN /\ ProbeReturn("T")
             /\ Log(<< "is_logged_in:T" >>)
             /\ UNCHANGED sel
        ELSE IF sel < NumLoginIndicators
        THEN /\ sel' = sel + 1
             /\ Goto("ili_find")
             /\ UNCHANGED << hist, lastProbe >>
        ELSE /\ ProbeReturn("F")
             /\ Log(<< "is_logged_in:F" >>)
             /\ UNCHANGED sel
    /\ UNCHANGED << inputs, waitVars, cookieFile, jar, url, mgr, is_docker, lcVars, polls,
                    capVars, result >>

-----------------------------------------------------------------------------
(* login.py: LoginManager.load_cookies *)

\* dict.pop(key, None)
Pop(rec, key) == [f \in DOMAIN rec \ {key} |-> rec[f]]

\* lines 98-99: the two pops applied to one record
Sanitize_SameSiteOnly(rec) == Pop(rec, "sameSite")
Sanitize(rec) == Pop(Pop(rec, "sameSite"), "storeId")

\* The browser's jar after add_cookie accepted rec: a cookie replaces the one
\* of the same name.
RECURSIVE WithoutName(_, _)
WithoutName(js, n) ==
    IF js = << >> THEN << >>
    ELSE IF Head(js)["name"] = n THEN WithoutName(Tail(js), n)
    ELSE << Head(js) >> \o WithoutName(Tail(js), n)

JarAdd(js, rec) == Append(WithoutName(js, rec["name"]), rec)

LoadCookiesStart ==
    /\ pc = "lc_start"
    /\ injected' = << >>
    /\ rejected' = {}
    /\ cookies' = << >>
    /\ ci' = 0
    /\ IF cookieFile.kind = "absent"
       THEN Return("F") /\ Log(<< "load_cookies", "load_cookies:F" >>)
       ELSE Goto("lc_get") /\ Log(<< "load_cookies" >>)
    /\ UNCHANGED << inputs, waitVars, cookieFile, jar, url, mgr, is_docker, sel, polls,
                    capVars, result, lastProbe >>

LoadCookiesGet ==
    /\ pc = "lc_get"
    /\ \E loaded \in BOOLEAN :
        IF loaded
        THEN url' = BaseUrl /\ Goto("lc_read") /\ Log(<< "get:base" >>)
        ELSE UNCHANGED url /\ Return("F") /\ Log(<< "get:base", "load_cookies:F" >>)
    /\ UNCHANGED << inputs, waitVars, cookieFile, jar, mgr, is_docker, lcVars, sel, polls,
                    capVars, result, lastProbe >>

\* open + json.load
LoadCookiesRead ==
    /\ pc = "lc_read"
    /\ IF cookieFile.kind = "ok"
       THEN /\ cookies' = cookieFile.recs
            /\ ci' = 1
            /\ Goto("lc_loop")
            /\ Log(<< "read_file" >>)
       ELSE /\ UNCHANGED << cookies, ci >>
            /\ Return("F")
            /\ Log(<< "read_file", "load_cookies:F" >>)
    /\ UNCHANGED << inputs, waitVars, cookieFile, jar, url, mgr, is_docker, injected,
                    rejected, sel, polls, capVars, result, lastProbe >>

LoadCookiesInject_RejectionFatal ==
    /\ pc = "lc_loop"
    /\ ci <= Len(cookies)
    /\ LET cookie == Sanitize(cookies[ci])
       IN  /\ cookies' = [cookies EXCEPT ![ci] = cookie]
           /\ injected' = Append(injected, cookie)
           /\ \E accepted \in BOOLEAN :
               IF accepted
               THEN /\ jar' = JarAdd(jar, cookie)
                    /\ UNCHANGED rejected
                    /\ Goto("lc_loop")
                    /\ Log(<< "add_cookie" >>)
               ELSE /\ UNCHANGED jar
                    /\ rejected' = rejected \cup {ci}
                    /\ Return("F")
                    /\ Log(<< "add_cookie", "load_cookies:F" >>)
    /\ ci' = ci + 1
    /\ UNCHANGED << inputs, waitVars, cookieFile, url, mgr, is_docker, sel, polls, capVars,
                    result, lastProbe >>

\* One pass of the for loop: the pops, then add_cookie, which the browser
\* accepts or rejects (the exception is logged and the loop goes on).
LoadCookiesInject ==
    /\ pc = "lc_loop"
    /\ ci <= Len(cookies)
    /\ LET cookie == Sanitize(cookies[ci])
       IN  /\ cookies' = [cookies EXCEPT ![ci] = cookie]
           /\ injected' = Append(injected, cookie)
           /\ \E accepted \in BOOLEAN :
               IF accepted
               THEN jar' = JarAdd(jar, cookie) /\ UNCHANGED rejected
               ELSE UNCHANGED jar /\ rejected' = rejected \cup {ci}
    /\ ci' = ci + 1
    /\ Goto("lc_loop")
    /\ Log(<< "add_cookie" >>)
    /\ UNCHANGED << inputs, waitVars, cookieFile, url, mgr, is_docker, sel, polls, capVars,
                    result, lastProbe >>

LoadCookiesRefresh_BeforeLoopEnds ==
    /\ pc = "lc_loop"
    /\ \E refreshed \in BOOLEAN :
        /\ Return(B2S(refreshed))
        /\ Log(IF refreshed
               THEN << "refresh", "load_cookies:T" >>
               ELSE << "refresh", "refresh raised", "load_cookies:F" >>)
    /\ UNCHANGED << inputs, waitVars, cookieFile, jar, url, mgr, is_docker, lcVars, sel,
                    polls, capVars, result, lastProbe >>

\* After the loop: driver.refresh(), which may raise into the outer except.
LoadCookiesRefresh ==
    /\ pc = "lc_loop"
    /\ ci > Len(cookies)
    /\ \E refreshed \in BOOLEAN :
        /\ Return(B2S(refreshed))
        /\ Log(IF refreshed
               THEN << "refresh", "load_cookies:T" >>
               ELSE << "refresh", "refresh raised", "load_cookies:F" >>)
    /\ UNCHANGED << inputs, waitVars, cookieFile, jar, url, mgr, is_docker, lcVars, sel,
                    polls, capVars, result, lastProbe >>

-----------------------------------------------------------------------------
(* login.py: LoginManager.save_cookies *)

\* cookie_path.parent.mkdir(...) stands before the try: its exception leaves
\* save_cookies.
SaveCookiesMkdir ==
    /\ pc = "sc_start"
    /\ Log(<< "save_cookies" >>)
    /\ \E made \in BOOLEAN :
        IF made THEN Goto("sc_write") ELSE Raise
    /\ UNCHANGED << inputs, waitVars, cookieFile, jar, url, mgr, is_docker, lcVars, sel,
                    polls, capVars, result, lastProbe >>

SaveCookiesWrite_WritesNothing ==
    /\ pc = "sc_write"
    /\ \E outcome \in { "written", "get_cookies raised", "open raised", "dump raised" } :
        /\ cookieFile' = CASE outcome = "written" -> FileOf(<< >>)
                           [] outcome = "dump raised" -> Corrupt
                           [] OTHER -> cookieFile
        /\ Return(B2S(outcome = "written"))
        /\ Log(IF outcome \in { "written", "dump raised" }
               THEN << "write_file", "save_cookies:" \o B2S(outcome = "written") >>
               ELSE << "save_cookies:F" >>)
    /\ UNCHANGED << inputs, waitVars, jar, url, mgr, is_docker, lcVars, sel, polls, capVars,
                    result, lastProbe >>

\* get_cookies, open(..., "w") and json.dump: all succeed, or one raises.  A
\* raise after open has truncated the file.
SaveCookiesWrite ==
    /\ pc = "sc_write"
    /\ \E outcome \in { "written", "get_cookies raised", "open raised", "dump raised" } :
        /\ cookieFile' = CASE outcome = "written" -> FileOf(jar)
                           [] outcome = "dump raised" -> Corrupt
                           [] OTHER -> cookieFile
        /\ Return(B2S(outcome = "written"))
        /\ Log(IF outcome \in { "written", "dump raised" }
               THEN << "write_file", "save_cookies:" \o B2S(outcome = "written") >>
               ELSE << "save_cookies:F" >>)
    /\ UNCHANGED << inputs, waitVars, jar, url, mgr, is_docker, lcVars, sel, polls, capVars,
                    result, lastProbe >>

-----------------------------------------------------------------------------
(* login.py: LoginManager.manual_login *)

\* driver.get(login_url) is not inside a try: its exception leaves manual_login.
ManualLoginOpen ==
    /\ pc = "ml_start"
    /\ polls' = 0
    /\ \E loaded \in BOOLEAN :
        IF loaded
        THEN url' = LoginUrl /\ Goto("ml_loop")
        ELSE UNCHANGED url /\ Raise
    /\ Log(<< "manual_login", "get:login" >>)
    /\ UNCHANGED << inputs, waitVars, cookieFile, jar, mgr, is_docker, lcVars, sel, capVars,
                    result, lastProbe >>

ManualLoginPoll_ReopensLogin ==
    /\ pc = "ml_loop"
    /\ polls < MaxPolls
    /\ polls' = polls + 1
    /\ url' = LoginUrl
    /\ Log(<< "get:login" >>)
    /\ Call("ili_get", "ml_probed")
    /\ UNCHANGED << inputs, waitVars, cookieFile, jar, mgr, is_docker, lcVars, sel,
                    capVars, result, lastProbe >>

\* The loop test holds: the body calls is_logged_in.  start_time is taken
\* right before the first test, so the first test always holds.
ManualLoginPoll ==
    /\ pc = "ml_loop"
    /\ polls < MaxPolls
    /\ polls' = polls + 1
    /\ Call("ili_get", "ml_probed")
    /\ UNCHANGED << inputs, waitVars, cookieFile, jar, url, mgr, is_docker, lcVars, sel,
                    capVars, result, hist, lastProbe >>

ManualLoginTimeout_ReportsSuccess ==
    /\ pc = "ml_loop"
    /\ polls > 0
    /\ Return("T")
    /\ Log(<< "manual_login:T" >>)
    /\ UNCHANGED << inputs, waitVars, cookieFile, jar, url, mgr, is_docker, lcVars, sel,
                    polls, capVars, result, lastProbe >>

\* The loop test fails: the timeout has elapsed.
ManualLoginTimeout ==
    /\ pc = "ml_loop"
    /\ polls > 0
    /\ Return("F")
    /\ Log(<< "manual_login:F" >>)
    /\ UNCHANGED << inputs, waitVars, cookieFile, jar, url, mgr, is_docker, lcVars, sel,
                    polls, capVars, result, lastProbe >>

ManualLoginProbed_SkipsSave ==
    /\ pc = "ml_probed"
    /\ IF ret = "T"
       THEN /\ Goto("ml_saved")
            /\ UNCHANGED << jar, url >>
       ELSE /\ Goto("ml_loop")
            /\ \E userLoggedIn \in BOOLEAN, userWentBack \in BOOLEAN :
                /\ jar' = IF userLoggedIn THEN SiteJar ELSE jar
                /\ url' = IF userWentBack THEN LoginUrl ELSE url
    /\ UNCHANGED << inputs, waitVars, cookieFile, mgr, is_docker, lcVars, sel, polls,
                    capVars, result, hist, lastProbe >>

\* After the probe: save_cookies on success, else sleep(5), during which the
\* user may complete the login in the browser window, or go back to the
\* login page the probe has navigated away from.
ManualLoginProbed ==
    /\ pc = "ml_probed"
    /\ IF ret = "T"
       THEN /\ Call("sc_start", "ml_saved")
            /\ UNCHANGED << jar, url >>
       ELSE /\ Goto("ml_loop")
            /\ \E userLoggedIn \in BOOLEAN, userWentBack \in BOOLEAN :
                /\ jar' = IF userLoggedIn THEN SiteJar ELSE jar
                /\ url' = IF userWentBack THEN LoginUrl ELSE url
    /\ UNCHANGED << inputs, waitVars, cookieFile, mgr, is_docker, lcVars, sel, polls,
                    capVars, result, hist, lastProbe >>

\* save_cookies returned: its result is dropped, manual_login returns True.
ManualLoginSaved ==
    /\ pc = "ml_saved"
    /\ Return("T")
    /\ Log(<< "manual_login:T" >>)
    /\ UNCHANGED << inputs, waitVars, cookieFile, jar, url, mgr, is_docker, lcVars, sel,
                    polls, capVars, result, lastProbe >>

-----------------------------------------------------------------------------
(* login.py: LoginManager.ensure_logged_in *)

\* os.environ.get("SELENIUM_REMOTE_URL") is not None
IsDocker(e) == e # Unset

EnsureStart ==
    /\ pc = "ens_start"
    /\ is_docker' = B2S(IsDocker(env))
    /\ lastProbe' = "none"
    /\ Log(<< "ensure_logged_in" >>)
    /\ IF IsDocker(env)
       THEN Call("lc_start", "ens_docker_loaded")
       ELSE Call("ili_get", "ens_local_probed")
    /\ UNCHANGED << inputs, waitVars, cookieFile, jar, url, mgr, lcVars, sel, polls, capVars,
                    result >>

EnsureReturn(v) == Return(v) /\ Log(<< "ensure_logged_in:" \o v >>)

\* Docker mode, after load_cookies
EnsureDockerLoaded ==
    /\ pc = "ens_docker_loaded"
    /\ IF ret = "F"
       THEN EnsureReturn("F")
       ELSE Call("ili_get", "ens_docker_probed") /\ UNCHANGED hist
    /\ UNCHANGED << inputs, waitVars, cookieFile, jar, url, mgr, is_docker, lcVars, sel,
                    polls, capVars, result, lastProbe >>

EnsureDockerProbed_FallsBackToManual ==
    /\ pc = "ens_docker_probed"
    /\ IF ret = "T"
       THEN EnsureReturn("T")
       ELSE Call("ml_start", "ens_manual_done") /\ UNCHANGED hist
    /\ UNCHANGED << inputs, waitVars, cookieFile, jar, url, mgr, is_docker, lcVars, sel,
                    polls, capVars, result, lastProbe >>

\* Docker mode, after the probe that follows the load
EnsureDockerProbed ==
    /\ pc = "ens_docker_probed"
    /\ EnsureReturn(ret)
    /\ UNCHANGED << inputs, waitVars, cookieFile, jar, url, mgr, is_docker, lcVars, sel,
                    polls, capVars, result, lastProbe >>

EnsureLocalProbed_AlwaysLoads ==
    /\ pc = "ens_local_probed"
    /\ Call("lc_start", "ens_local_loaded")
    /\ UNCHANGED << inputs, waitVars, cookieFile, jar, url, mgr, is_docker, lcVars, sel,
                    polls, capVars, result, hist, lastProbe >>

\* Local mode, after the profile probe
EnsureLocalProbed ==
    /\ pc = "ens_local_probed"
    /\ IF ret = "T"
       THEN EnsureReturn("T")
       ELSE Call("lc_start", "ens_local_loaded") /\ UNCHANGED hist
    /\ UNCHANGED << inputs, waitVars, cookieFile, jar, url, mgr, is_docker, lcVars, sel,
                    polls, capVars, result, lastProbe >>

EnsureLocalLoaded_SkipsReprobe ==
    /\ pc = "ens_local_loaded"
    /\ Call("ml_start", "ens_manual_done")
    /\ UNCHANGED << inputs, waitVars, cookieFile, jar, url, mgr, is_docker, lcVars, sel,
                    polls, capVars, result, hist, lastProbe >>

\* Local mode, after load_cookies
EnsureLocalLoaded ==
    /\ pc = "ens_local_loaded"
    /\ IF ret = "T"
       THEN Call("ili_get", "ens_local_reprobed")
       ELSE Call("ml_start", "ens_manual_done")
    /\ UNCHANGED << inputs, waitVars, cookieFile, jar, url, mgr, is_docker, lcVars, sel,
                    polls, capVars, result, hist, lastProbe >>

\* Local mode, after the probe that follows the load
EnsureLocalReprobed ==
    /\ pc = "ens_local_reprobed"
    /\ IF ret = "T"
       THEN EnsureReturn("T")
       ELSE Call("ml_start", "ens_manual_done") /\ UNCHANGED hist
    /\ UNCHANGED << inputs, waitVars, cookieFile, jar, url, mgr, is_docker, lcVars, sel,
                    polls, capVars, result, lastProbe >>

\* return self.manual_login()
EnsureManualDone ==
    /\ pc = "ens_manual_done"
    /\ EnsureReturn(ret)
    /\ UNCHANGED << inputs, waitVars, cookieFile, jar, url, mgr, is_docker, lcVars, sel,
                    polls, capVars, result, lastProbe >>

-----------------------------------------------------------------------------
(* uploader.py: TikTokUploader._fill_caption *)

DefaultMaxTitleLength == 150
NumCaptionSelectors == 6

Min(a, b) == IF a < b THEN a ELSE b
Max(a, b) == IF a > b THEN a ELSE b

\* " ".join(parts)
RECURSIVE JoinSpace(_)
JoinSpace(parts) ==
    IF parts = << >> THEN ""
    ELSE IF Len(parts) = 1 THEN parts[1]
    ELSE parts[1] \o " " \o JoinSpace(Tail(parts))

ComposeCaption_AlwaysTitle(t, tg) ==
    LET hashtags == JoinSpace([i \in 1..Len(tg) |-> "#" \o tg[i]])
        caption_parts == IF tg # << >> THEN << t, hashtags >> ELSE << t >>
    IN  JoinSpace(caption_parts)

\* lines 253-260: caption_parts and its join
ComposeCaption(t, tg) ==
    LET withTitle == IF t # "" THEN << t >> ELSE << >>
        hashtags == JoinSpace([i \in 1..Len(tg) |-> "#" \o tg[i]])
        caption_parts == IF tg # << >> THEN Append(withTitle, hashtags) ELSE withTitle
    IN  JoinSpace(caption_parts)

\* s[:k] of Python: a negative k counts from the end
SliceTo(s, k) ==
    IF k >= 0 THEN SubSeq(s, 1, Min(k, Len(s)))
    ELSE SubSeq(s, 1, Max(Len(s) + k, 0))

\* lines 267-270
Truncate(caption, m) ==
    IF Len(caption) > m THEN SliceTo(caption, m - 3) \o "..." ELSE caption

\* Build the caption; an empty caption returns at once.
FillCaptionCompose ==
    /\ pc = "fc_start"
    /\ LET composed == ComposeCaption(title, tags)
       IN  IF composed = ""
           THEN /\ full_caption' = composed
                /\ Return("none")
                /\ Log(<< "_fill_caption", "_fill_caption:done" >>)
           ELSE /\ full_caption' = Truncate(composed, max_length)
                /\ Goto("fc_overlay")
                /\ Log(<< "_fill_caption" >>)
    /\ entered' = NotEntered
    /\ UNCHANGED << inputs, waitVars, cookieFile, jar, url, mgr, is_docker, lcVars, sel,
                    polls, result, lastProbe >>

\* The overlay-removal script runs or raises; either way the function goes on.
FillCaptionOverlay ==
    /\ pc = "fc_overlay"
    /\ sel' = 1
    /\ Goto("fc_selector")
    /\ UNCHANGED << inputs, waitVars, cookieFile, jar, url, mgr, is_docker, lcVars, polls,
                    capVars, result, hist, lastProbe >>

\* One caption selector: find_elements raises, or yields no element that is
\* visible and takes the input, or the first such element gets full_caption.
FillCaptionSelector ==
    /\ pc = "fc_selector"
    /\ \E outcome \in { "raised", "no usable element", "typed" } :
        IF outcome = "typed"
        THEN /\ entered' = full_caption
             /\ Return("none")
             /\ Log(<< "send_keys:caption", "_fill_caption:done" >>)
             /\ UNCHANGED << sel, full_caption >>
        ELSE IF sel < NumCaptionSelectors
        THEN /\ sel' = sel + 1
             /\ Goto("fc_selector")
             /\ UNCHANGED << capVars, hist >>
        ELSE /\ Goto("fc_script")
             /\ UNCHANGED << sel, capVars, hist >>
    /\ UNCHANGED << inputs, waitVars, cookieFile, jar, url, mgr, is_docker, lcVars, polls,
                    result, lastProbe >>

FillCaptionScript_RaiseEscapes ==
    /\ pc = "fc_script"
    /\ \E outcome \in { "success", "not_found", "raised" } :
        /\ entered' = IF outcome = "success" THEN full_caption ELSE entered
        /\ IF outcome = "raised"
           THEN Raise /\ UNCHANGED hist
           ELSE /\ Return("none")
                /\ Log(IF outcome = "success"
                       THEN << "script:caption", "_fill_caption:done" >>
                       ELSE << "_fill_caption:done" >>)
    /\ UNCHANGED << inputs, waitVars, cookieFile, jar, url, mgr, is_docker, lcVars, sel,
                    polls, full_caption, result, lastProbe >>

\* JavaScript fallback: 'success' sets the editor's content to full_caption.
FillCaptionScript ==
    /\ pc = "fc_script"
    /\ \E outcome \in { "success", "not_found", "raised" } :
        /\ entered' = IF outcome = "success" THEN full_caption ELSE entered
        /\ Log(IF outcome = "success"
               THEN << "script:caption", "_fill_caption:done" >>
               ELSE << "_fill_caption:done" >>)
    /\ Return("none")
    /\ UNCHANGED << inputs, waitVars, cookieFile, jar, url, mgr, is_docker, lcVars, sel,
                    polls, full_caption, result, lastProbe >>

-----------------------------------------------------------------------------
(* uploader.py: TikTokUploader._find_file_input *)

NumFileInputSelectors == 5

\* time.sleep(5), then driver.current_url is read for the log, outside any
\* try: its exception leaves _find_file_input.
FindFileInputStart ==
    /\ pc = "ffi_start"
    /\ \E read \in BOOLEAN :
        IF read THEN sel' = 1 /\ Goto("ffi_selector") ELSE UNCHANGED sel /\ Raise
    /\ UNCHANGED << inputs, waitVars, cookieFile, jar, url, mgr, is_docker, lcVars, polls,
                    capVars, result, hist, lastProbe >>

FindFileInputSelector_SkipsToScript ==
    /\ pc = "ffi_selector"
    /\ \E outcome \in { "found", "timeout", "raised" } :
        /\ UNCHANGED sel
        /\ CASE outcome = "found" -> Return("elem")
             [] outcome = "raised" -> Raise
             [] OTHER -> Goto("ffi_script")
    /\ UNCHANGED << inputs, waitVars, cookieFile, jar, url, mgr, is_docker, lcVars, polls,
                    capVars, result, hist, lastProbe >>

\* WebDriverWait(20).until(presence of selector number sel): the element is
\* returned, or TimeoutException moves on to the next selector; any other
\* exception of the driver leaves _find_file_input.
FindFileInputSelector ==
    /\ pc = "ffi_selector"
    /\ \E outcome \in { "found", "timeout", "raised" } :
        CASE outcome = "found" -> Return("elem") /\ UNCHANGED sel
          [] outcome = "raised" -> Raise /\ UNCHANGED sel
          [] OTHER ->
                IF sel < NumFileInputSelectors THEN sel' = sel + 1 /\ Goto("ffi_selector")
                ELSE UNCHANGED sel /\ Goto("ffi_script")
    /\ UNCHANGED << inputs, waitVars, cookieFile, jar, url, mgr, is_docker, lcVars, polls,
                    capVars, result, hist, lastProbe >>

\* document.querySelector by execute_script: an element, null, or a raise
\* that is logged; without an element the function returns None.
FindFileInputScript ==
    /\ pc = "ffi_script"
    /\ \E outcome \in { "element", "null", "raised" } :
        Return(IF outcome = "element" THEN "elem" ELSE "none")
    /\ UNCHANGED << inputs, waitVars, cookieFile, jar, url, mgr, is_docker, lcVars, sel,
                    polls, capVars, result, hist, lastProbe >>

-----------------------------------------------------------------------------
(* uploader.py: TikTokUploader._wait_for_upload *)

PostThreshold == 3

WaitUploadStart ==
    /\ pc = "wfu_start"
    /\ polls' = 0
    /\ post_found_count' = 0
    /\ seen' = NothingSeen
    /\ Goto("wfu_poll")
    /\ UNCHANGED << inputs, cookieFile, jar, url, mgr, is_docker, lcVars, sel, capVars,
                    result, hist, lastProbe >>

WaitUploadPoll_NoReset ==
    /\ pc = "wfu_poll"
    /\ polls < upload_timeout
    /\ \E buttons \in 0..MaxButtons, marker \in BOOLEAN, progress \in BOOLEAN :
        LET needed == Max(1, PostThreshold - post_found_count)
            shown == [streak |-> IF buttons > 0 THEN Min(seen.streak + 1, PostThreshold) ELSE 0,
                      post |-> seen.post \/ buttons > 0,
                      marker |-> seen.marker \/ marker,
                      progress |-> progress]
        IN  /\ seen' = shown
            /\ IF buttons >= needed
               THEN /\ post_found_count' = post_found_count + needed
                    /\ Return("T")
                    /\ Log(<< "_wait_for_upload:T" >>)
               ELSE /\ post_found_count' =
                        post_found_count + buttons + (IF marker THEN 1 ELSE 0)
                    /\ Goto("wfu_poll")
                    /\ UNCHANGED hist
    /\ polls' = polls + 1
    /\ UNCHANGED << inputs, cookieFile, jar, url, mgr, is_docker, lcVars, sel, capVars,
                    result, lastProbe >>

\* One pass of the while loop.  The page shows `buttons` buttons with text
\* "post" that are displayed and enabled, the "Edit cover" marker or not, an
\* in-progress percentage or not.  The button loop adds one per button and
\* returns True as soon as the counter is 3 or more; otherwise the marker adds
\* one, an in-progress percentage sets the counter to 0, and the loop sleeps.
WaitUploadPoll ==
    /\ pc = "wfu_poll"
    /\ polls < upload_timeout
    /\ \E buttons \in 0..MaxButtons, marker \in BOOLEAN, progress \in BOOLEAN :
        LET needed == Max(1, PostThreshold - post_found_count)
            shown == [streak |-> IF buttons > 0 THEN Min(seen.streak + 1, PostThreshold) ELSE 0,
                      post |-> seen.post \/ buttons > 0,
                      marker |-> seen.marker \/ marker,
                      progress |-> progress]
        IN  /\ seen' = shown
            /\ IF buttons >= needed
               THEN /\ post_found_count' = post_found_count + needed
                    /\ Return("T")
                    /\ Log(<< "_wait_for_upload:T" >>)
               ELSE /\ post_found_count' =
                        IF progress THEN 0
                        ELSE post_found_count + buttons + (IF marker THEN 1 ELSE 0)
                    /\ Goto("wfu_poll")
                    /\ UNCHANGED hist
    /\ polls' = polls + 1
    /\ UNCHANGED << inputs, cookieFile, jar, url, mgr, is_docker, lcVars, sel, capVars,
                    result, lastProbe >>

WaitUploadTimeout_ReturnsFalse ==
    /\ pc = "wfu_poll"
    /\ polls >= upload_timeout
    /\ Return("F")
    /\ Log(<< "upload:timeout", "_wait_for_upload:F" >>)
    /\ UNCHANGED << inputs, waitVars, cookieFile, jar, url, mgr, is_docker, lcVars, sel,
                    polls, capVars, result, lastProbe >>

\* The loop condition fails: the warning is logged and True is returned.
WaitUploadTimeout ==
    /\ pc = "wfu_poll"
    /\ polls >= upload_timeout
    /\ Return("T")
    /\ Log(<< "upload:timeout", "_wait_for_upload:T" >>)
    /\ UNCHANGED << inputs, waitVars, cookieFile, jar, url, mgr, is_docker, lcVars, sel,
                    polls, capVars, result, lastProbe >>

-----------------------------------------------------------------------------
(* uploader.py: TikTokUploader._click_post_button *)

\* The three strategies in order (script text match, element search, the
\* selector list), each inside its own try: the first that clicks returns
\* True; when none does the function returns False.  It never raises.
ClickPostButton ==
    /\ pc = "cpb_start"
    /\ \E strategy \in { "script", "element", "selector", "none" } :
        /\ Return(B2S(strategy # "none"))
        /\ Log(<< "click_post:" \o B2S(strategy # "none") >>)
    /\ UNCHANGED << inputs, waitVars, cookieFile, jar, url, mgr, is_docker, lcVars, sel,
                    polls, capVars, result, lastProbe >>

-----------------------------------------------------------------------------
(* uploader.py: TikTokUploader._handle_warning_popups *)

\* find_elements for the title "Content may be restricted": nothing (return),
\* a popup, or a raise that the outer except swallows.
WarningPopupProbe ==
    /\ pc = "wp_start"
    /\ \E outcome \in { "found", "none", "raised" } :
        IF outcome = "found"
        THEN Goto("wp_close") /\ Log(<< "popup:found" >>)
        ELSE Return("none") /\ UNCHANGED hist
    /\ UNCHANGED << inputs, waitVars, cookieFile, jar, url, mgr, is_docker, lcVars, sel,
                    polls, capVars, result, lastProbe >>

\* The close strategies, each in its own try: the icon, the four selectors,
\* the script.  popup_closed is set by the first that works.
WarningPopupClose ==
    /\ pc = "wp_close"
    /\ \E closedBy \in { "icon", "selector", "script", "none" } :
        IF closedBy = "none"
        THEN Return("none") /\ UNCHANGED hist
        ELSE Goto("wp_recheck") /\ Log(<< "popup:closed" >>)
    /\ UNCHANGED << inputs, waitVars, cookieFile, jar, url, mgr, is_docker, lcVars, sel,
                    polls, capVars, result, lastProbe >>

\* if popup_closed: the title is looked for again (find_elements, then
\* is_displayed of each element found); both branches of the test call
\* _click_post_button.  An exception of the look-up reaches the outer except.
WarningPopupRecheck ==
    /\ pc = "wp_recheck"
    /\ \E outcome \in { "gone", "still visible", "raised" } :
        IF outcome = "raised"
        THEN Return("none")
        ELSE Call("cpb_start", "wp_reclicked")
    /\ UNCHANGED << inputs, waitVars, cookieFile, jar, url, mgr, is_docker, lcVars, sel,
                    polls, capVars, result, hist, lastProbe >>

\* The result of the second click is not looked at.
WarningPopupReclicked ==
    /\ pc = "wp_reclicked"
    /\ Return("none")
    /\ UNCHANGED << inputs, waitVars, cookieFile, jar, url, mgr, is_docker, lcVars, sel,
                    polls, capVars, result, hist, lastProbe >>

-----------------------------------------------------------------------------
(* uploader.py: TikTokUploader._wait_for_post_complete *)

PostCompleteStart ==
    /\ pc = "wpc_start"
    /\ polls' = 0
    /\ Goto("wpc_poll")
    /\ UNCHANGED << inputs, waitVars, cookieFile, jar, url, mgr, is_docker, lcVars, sel,
                    capVars, result, hist, lastProbe >>

\* One pass of the while loop: driver.current_url is read outside any try
\* (its exception leaves the function); a URL without "upload" is success, so
\* is a success indicator found; otherwise the loop sleeps and polls again.
PostCompletePoll ==
    /\ pc = "wpc_poll"
    /\ polls < MaxConfirmPolls
    /\ \E outcome \in { "raised", "redirected", "marker", "nothing" } :
        /\ url' = IF outcome = "redirected" THEN BaseUrl ELSE url
        /\ CASE outcome = "raised" -> Raise /\ UNCHANGED << hist, polls >>
             [] outcome = "nothing" -> Goto("wpc_poll") /\ polls' = polls + 1 /\ UNCHANGED hist
             [] OTHER -> Return("T") /\ polls' = 0 /\ Log(<< "confirm:" \o outcome >>)
    /\ UNCHANGED << inputs, waitVars, cookieFile, jar, mgr, is_docker, lcVars, sel,
                    capVars, result, lastProbe >>

PostCompleteTimeout_ReturnsFalse ==
    /\ pc = "wpc_poll"
    /\ polls >= MaxConfirmPolls
    /\ polls' = 0
    /\ Return("F")
    /\ Log(<< "confirm:timeout" >>)
    /\ UNCHANGED << inputs, waitVars, cookieFile, jar, url, mgr, is_docker, lcVars, sel,
                    capVars, result, lastProbe >>

\* The loop ran out of time: "Could not confirm post completion", return True.
PostCompleteTimeout ==
    /\ pc = "wpc_poll"
    /\ polls >= MaxConfirmPolls
    /\ polls' = 0
    /\ Return("T")
    /\ Log(<< "confirm:timeout" >>)
    /\ UNCHANGED << inputs, waitVars, cookieFile, jar, url, mgr, is_docker, lcVars, sel,
                    capVars, result, lastProbe >>

-----------------------------------------------------------------------------
(* uploader.py: TikTokUploader.upload_video *)

UploadFail == result' = "F" /\ Return("F")

UploadVideoStart_LoginBeforeFileCheck ==
    /\ pc = "uv_start"
    /\ Call("ens_start", "uv_ensured")
    /\ UNCHANGED << inputs, waitVars, cookieFile, jar, url, mgr, is_docker, lcVars, sel,
                    polls, capVars, result, hist, lastProbe >>

\* Preflight: the file check, then the call of ensure_logged_in.
UploadVideoStart ==
    /\ pc = "uv_start"
    /\ IF ~videoExists
       THEN UploadFail
       ELSE Call("ens_start", "uv_ensured") /\ UNCHANGED result
    /\ UNCHANGED << inputs, waitVars, cookieFile, jar, url, mgr, is_docker, lcVars, sel,
                    polls, capVars, hist, lastProbe >>

UploadVideoEnsured_IgnoresLogin ==
    /\ pc = "uv_ensured"
    /\ Goto("uv_navigate")
    /\ UNCHANGED << inputs, waitVars, cookieFile, jar, url, mgr, is_docker, lcVars, sel,
                    polls, capVars, result, hist, lastProbe >>

UploadVideoEnsured ==
    /\ pc = "uv_ensured"
    /\ IF ret = "T"
       THEN Goto("uv_navigate") /\ UNCHANGED result
       ELSE UploadFail
    /\ UNCHANGED << inputs, waitVars, cookieFile, jar, url, mgr, is_docker, lcVars, sel,
                    polls, capVars, hist, lastProbe >>

\* From here on the code runs inside try/except Exception: a raise is a
\* False result.
UploadVideoNavigate ==
    /\ pc = "uv_navigate"
    /\ Log(<< "get:upload" >>)
    /\ \E loaded \in BOOLEAN :
        IF loaded
        THEN url' = UploadUrl /\ Goto("uv_find_input")
        ELSE UNCHANGED url /\ Goto("uv_except")
    /\ UNCHANGED << inputs, waitVars, cookieFile, jar, mgr, is_docker, lcVars, sel, polls,
                    capVars, result, lastProbe >>

UploadVideoFindInput ==
    /\ pc = "uv_find_input"
    /\ Call("ffi_start", "uv_input_ret")
    /\ UNCHANGED << inputs, waitVars, cookieFile, jar, url, mgr, is_docker, lcVars, sel,
                    polls, capVars, result, hist, lastProbe >>

UploadVideoFileInput_ContinuesWithoutInput ==
    /\ pc = "uv_input_ret"
    /\ UNCHANGED result
    /\ \E sent \in BOOLEAN :
        IF sent
        THEN /\ Log(IF ret = "none" THEN << "file_input:none", "send_keys:path" >>
                                    ELSE << "send_keys:path" >>)
             /\ Call("wfu_start", "uv_uploaded")
        ELSE UNCHANGED hist /\ Goto("uv_except")
    /\ UNCHANGED << inputs, waitVars, cookieFile, jar, url, mgr, is_docker, lcVars, sel,
                    polls, capVars, lastProbe >>

\* None from _find_file_input is the failure "Could not find file input"; an
\* element gets the path by send_keys, which may raise.
UploadVideoFileInput ==
    /\ pc = "uv_input_ret"
    /\ IF ret = "none"
       THEN Log(<< "file_input:none" >>) /\ UploadFail
       ELSE /\ UNCHANGED result
            /\ \E sent \in BOOLEAN :
                IF sent
                THEN Log(<< "send_keys:path" >>) /\ Call("wfu_start", "uv_uploaded")
                ELSE UNCHANGED hist /\ Goto("uv_except")
    /\ UNCHANGED << inputs, waitVars, cookieFile, jar, url, mgr, is_docker, lcVars, sel,
                    polls, capVars, lastProbe >>

\* except Exception: the error is logged and upload_video returns False.
UploadVideoExcept ==
    /\ pc = "uv_except"
    /\ Log(<< "raised" >>)
    /\ UploadFail
    /\ UNCHANGED << inputs, waitVars, cookieFile, jar, url, mgr, is_docker, lcVars, sel,
                    polls, capVars, lastProbe >>

\* if not self._wait_for_upload(): return False; then the content-check popup.
\* The locals of the wait end with it.
UploadVideoUploaded ==
    /\ pc = "uv_uploaded"
    /\ IF ret # "T"
       THEN Log(<< "upload timed out" >>) /\ UploadFail
       ELSE UNCHANGED << hist, result >> /\ Goto("uv_content_check")
    /\ polls' = 0
    /\ post_found_count' = 0
    /\ seen' = NothingSeen
    /\ UNCHANGED << inputs, cookieFile, jar, url, mgr, is_docker, lcVars, sel, capVars,
                    lastProbe >>

\* _handle_content_check_popup: "Turn on" or "Cancel" is clicked, or nothing
\* is found, or something raises inside its try; then the scroll (in its own
\* try) and the call of _fill_caption.
UploadVideoContentCheck ==
    /\ pc = "uv_content_check"
    /\ \E outcome \in { "turned on", "cancelled", "nothing found", "raised" } :
        Log(<< IF outcome \in { "turned on", "cancelled" }
               THEN "content_check:dismissed" ELSE "content_check:skipped" >>)
    /\ Call("fc_start", "uv_captioned")
    /\ UNCHANGED << inputs, waitVars, cookieFile, jar, url, mgr, is_docker, lcVars, sel,
                    polls, capVars, result, lastProbe >>

UploadVideoCaptioned ==
    /\ pc = "uv_captioned"
    /\ Call("cpb_start", "uv_clicked")
    /\ UNCHANGED << inputs, waitVars, cookieFile, jar, url, mgr, is_docker, lcVars, sel,
                    polls, capVars, result, hist, lastProbe >>

UploadVideoClicked_IgnoresClick ==
    /\ pc = "uv_clicked"
    /\ Call("wp_start", "uv_warned")
    /\ UNCHANGED << inputs, waitVars, cookieFile, jar, url, mgr, is_docker, lcVars, sel,
                    polls, capVars, result, hist, lastProbe >>

\* if self._click_post_button(): ... else: "Could not find post button",
\* return False.
UploadVideoClicked ==
    /\ pc = "uv_clicked"
    /\ IF ret = "T"
       THEN Call("wp_start", "uv_warned") /\ UNCHANGED result
       ELSE UploadFail
    /\ UNCHANGED << inputs, waitVars, cookieFile, jar, url, mgr, is_docker, lcVars, sel,
                    polls, capVars, hist, lastProbe >>

UploadVideoWarned ==
    /\ pc = "uv_warned"
    /\ Call("wpc_start", "uv_confirmed")
    /\ UNCHANGED << inputs, waitVars, cookieFile, jar, url, mgr, is_docker, lcVars, sel,
                    polls, capVars, result, hist, lastProbe >>

\* return self._wait_for_post_complete()
UploadVideoConfirmed ==
    /\ pc = "uv_confirmed"
    /\ result' = ret
    /\ Return(ret)
    /\ UNCHANGED << inputs, waitVars, cookieFile, jar, url, mgr, is_docker, lcVars, sel,
                    polls, capVars, hist, lastProbe >>

-----------------------------------------------------------------------------
(* The caller: a driver is provisioned, one upload is run with it, and the *)
(* browser is closed.                                                      *)

MainStart ==
    /\ pc = "main_start"
    /\ Call("cd_start", "main_created")
    /\ UNCHANGED << inputs, waitVars, cookieFile, jar, url, mgr, is_docker, lcVars, sel,
                    polls, capVars, result, hist, lastProbe >>

MainUpload ==
    /\ pc = "main_created"
    /\ hist' = << >>
    /\ Call("uv_start", "main_uv_ret")
    /\ UNCHANGED << inputs, waitVars, cookieFile, jar, url, mgr, is_docker, lcVars, sel,
                    polls, capVars, result, lastProbe >>

MainUploaded ==
    /\ pc \in { "main_uv_ret", "main_uv_raised" }
    /\ result' = IF pc = "main_uv_raised" THEN "raised" ELSE result
    /\ Call("close", "main_done")
    /\ UNCHANGED << inputs, waitVars, cookieFile, jar, url, mgr, is_docker, lcVars, sel,
                    polls, capVars, hist, lastProbe >>

-----------------------------------------------------------------------------
(* Specifications *)

ExampleTitle == "My trip"
ExampleTags == << "travel", "summer" >>

Quiet ==
    /\ url = Blank
    /\ ret = "none"
    /\ is_docker = "unset"
    /\ cookies = << >>
    /\ ci = 0
    /\ sel = 0
    /\ polls = 0
    /\ attempt = 0
    /\ full_caption = ""
    /\ entered = NotEntered
    /\ result = "none"
    /\ hist = << >>
    /\ injected = << >>
    /\ rejected = {}
    /\ lastProbe = "none"
    /\ post_found_count = 0
    /\ seen = NothingSeen

\* The workflow: main from its first line.
Init ==
    /\ env \in EnvValues
    /\ videoExists \in BOOLEAN
    /\ cookieFile \in WorkflowCookieFiles
    /\ jar \in { << >>, SiteJar }
    /\ \E request \in { << ExampleTitle, ExampleTags, 5 >>,
                         << "", << >>, DefaultMaxTitleLength >> } :
        title = request[1] /\ tags = request[2] /\ max_length = request[3]
    /\ site = "any"
    /\ upload_timeout = 1
    /\ script = "main"
    /\ driver = "none"
    /\ is_remote = "unset"
    /\ pc = "main_start"
    /\ stack = << >>
    /\ Quiet

Next ==
    \/ MainStart \/ MainUpload \/ MainUploaded
    \/ CreateDriverStart \/ CreateDriverConnect \/ CreateDriverLocal \/ Close
    \/ Unwind
    \/ UploadVideoStart \/ UploadVideoEnsured \/ UploadVideoNavigate
    \/ UploadVideoFindInput \/ UploadVideoFileInput \/ UploadVideoExcept
    \/ UploadVideoUploaded \/ UploadVideoContentCheck \/ UploadVideoCaptioned
    \/ UploadVideoClicked \/ UploadVideoWarned \/ UploadVideoConfirmed
    \/ ClickPostButton
    \/ WarningPopupProbe \/ WarningPopupClose \/ WarningPopupRecheck
    \/ WarningPopupReclicked
    \/ PostCompleteStart \/ PostCompletePoll \/ PostCompleteTimeout
    \/ FindFileInputStart \/ FindFileInputSelector \/ FindFileInputScript
    \/ WaitUploadStart \/ WaitUploadPoll \/ WaitUploadTimeout
    \/ EnsureStart \/ EnsureDockerLoaded \/ EnsureDockerProbed
    \/ EnsureLocalProbed \/ EnsureLocalLoaded \/ EnsureLocalReprobed
    \/ EnsureManualDone
    \/ IsLoggedInGet \/ IsLoggedInFind
    \/ LoadCookiesStart \/ LoadCookiesGet \/ LoadCookiesRead
    \/ LoadCookiesInject \/ LoadCookiesRefresh
    \/ SaveCookiesMkdir \/ SaveCookiesWrite
    \/ ManualLoginOpen \/ ManualLoginPoll \/ ManualLoginTimeout
    \/ ManualLoginProbed \/ ManualLoginSaved
    \/ FillCaptionCompose \/ FillCaptionOverlay \/ FillCaptionSelector
    \/ FillCaptionScript

Spec == Init /\ [][Next]_vars

-----------------------------------------------------------------------------
(* load_cookies called on its own, on every cookie file up to MaxCookies *)

InitCookies ==
    /\ env = Unset
    /\ videoExists = TRUE
    /\ cookieFile \in CookieFiles
    /\ jar \in { << >>, SiteJar }
    /\ title = ""
    /\ tags = << >>
    /\ max_length = DefaultMaxTitleLength
    /\ site = "any"
    /\ upload_timeout = 1
    /\ script = "main"
    /\ driver = "local"
    /\ is_remote = "F"
    /\ pc = "lc_start"
    /\ stack = << "caller_ret" >>
    /\ Quiet

NextCookies ==
    \/ LoadCookiesStart \/ LoadCookiesGet \/ LoadCookiesRead
    \/ LoadCookiesInject \/ LoadCookiesRefresh

SpecCookies == InitCookies /\ [][NextCookies]_vars

-----------------------------------------------------------------------------
(* _fill_caption called on its own, on generated titles, tags and lengths *)

TitleAlphabet == { "a", " " }
TagSet == { "t", "travel", "summer" }

RECURSIVE StringsUpTo(_, _)
StringsUpTo(S, n) ==
    IF n = 0 THEN { "" }
    ELSE LET shorter == StringsUpTo(S, n - 1)
         IN  shorter \cup { s \o c : s \in shorter, c \in S }

Titles == StringsUpTo(TitleAlphabet, MaxTitleLen) \cup { ExampleTitle }
TagLists == SeqsUpTo(TagSet, MaxTags)
MaxLengths == 0..MaxCaptionLen \cup { DefaultMaxTitleLength }

InitCaption ==
    /\ env = Unset
    /\ videoExists = TRUE
    /\ cookieFile = Absent
    /\ jar = << >>
    /\ title \in Titles
    /\ tags \in TagLists
    /\ max_length \in MaxLengths
    /\ site = "any"
    /\ upload_timeout = 1
    /\ script = "main"
    /\ driver = "local"
    /\ is_remote = "F"
    /\ pc = "fc_start"
    /\ stack = << "caller_ret" >>
    /\ Quiet

NextCaption ==
    \/ FillCaptionCompose \/ FillCaptionOverlay \/ FillCaptionSelector
    \/ FillCaptionScript

SpecCaption == InitCaption /\ [][NextCaption]_vars

-----------------------------------------------------------------------------
(* Properties *)

Has(e) == \E i \in 1..Len(hist) : hist[i] = e
IsProbe(e) == e \in { "is_logged_in:T", "is_logged_in:F" }
Probes(events) == SelectSeq(events, IsProbe)
Before(i) == SubSeq(hist, 1, i - 1)
Between(i, j) == SubSeq(hist, i + 1, j - 1)
EnsureReturned == Has("ensure_logged_in:T") \/ Has("ensure_logged_in:F")
CookieFileTouched == Has("read_file") \/ Has("write_file")

\* C1: in remote mode (the variable is set) ensure_logged_in never calls
\* manual_login; it returns True only after load_cookies returned True and
\* the probe after it reported logged-in; it returns False when the cookie
\* file is absent or that probe reported logged-out.
C1_RemoteCookieOnly ==
    env # Unset =>
        /\ ~Has("manual_login")
        /\ ~Has("save_cookies")
        /\ Has("ensure_logged_in:T") =>
              /\ Has("load_cookies:T")
              /\ Probes(hist) = << "is_logged_in:T" >>
              /\ \E i, j \in 1..Len(hist) :
                    i < j /\ hist[i] = "load_cookies:T" /\ hist[j] = "is_logged_in:T"
        /\ (EnsureReturned /\ (cookieFile.kind = "absent" \/ lastProbe = "F")) =>
              Has("ensure_logged_in:F")
        /\ pc = "uv_ensured" => ret = B2S(Has("ensure_logged_in:T"))

C1_Witness ==
    /\ env = RemoteUrl
    /\ pc = "uv_ensured"
    /\ ret = "T"
    /\ Has("load_cookies:T")

\* C2: in local mode, when the first probe of ensure_logged_in reports
\* logged-in, it returns True and neither load_cookies nor manual_login is
\* called nor the cookie file read or written.
C2_ValidProfileShortCircuits ==
    (env = Unset /\ Probes(hist) # << >> /\ Probes(hist)[1] = "is_logged_in:T") =>
        /\ pc # "ens_local_probed" =>
              /\ Len(hist) >= 4
              /\ SubSeq(hist, 1, 4) =
                    << "ensure_logged_in", "get:base", "is_logged_in:T", "ensure_logged_in:T" >>
        /\ ~Has("load_cookies")
        /\ ~Has("manual_login")
        /\ ~Has("save_cookies")
        /\ ~CookieFileTouched
        /\ injected = << >>
        /\ pc = "uv_ensured" => ret = "T"

C2_Witness ==
    /\ env = Unset
    /\ pc = "uv_ensured"
    /\ ret = "T"
    /\ Probes(hist) = << "is_logged_in:T" >>
    /\ cookieFile.kind = "ok"

\* C3: ensure_logged_in returns True only if the last is_logged_in probe made
\* by it or by manual_login returned True, and upload_video navigates to the
\* upload URL only after ensure_logged_in returned True.
C3_NeverUnauthenticated ==
    /\ (pc = "uv_ensured" /\ ret = "T") =>
          /\ lastProbe = "T"
          /\ Probes(hist) # << >>
          /\ Probes(hist)[Len(Probes(hist))] = "is_logged_in:T"
    /\ \A i \in 1..Len(hist) :
          hist[i] = "get:upload" =>
              /\ \E j \in 1..(i - 1) : hist[j] = "ensure_logged_in:T"
              /\ Probes(Before(i))[Len(Probes(Before(i)))] = "is_logged_in:T"
    /\ (url = UploadUrl \/ pc = "uv_navigate") =>
          (Has("ensure_logged_in:T") /\ lastProbe = "T")

C3_Witness ==
    /\ Has("get:upload")
    /\ url = UploadUrl
    /\ Has("manual_login:T")
    /\ Probes(hist) = << "is_logged_in:F", "is_logged_in:F", "is_logged_in:T" >>

\* C4: in local mode the fallbacks come in the order profile probe, cookie
\* load with re-probe, manual login: load_cookies is called only after the
\* profile probe reported logged-out, and manual_login only after the cookie
\* step failed (load_cookies returned False, or it returned True and the
\* re-probe reported logged-out).
C4_LocalFallbackOrder ==
    env = Unset =>
        \A i \in 1..Len(hist) :
            /\ hist[i] = "load_cookies" =>
                  /\ Probes(Before(i)) = << "is_logged_in:F" >>
                  /\ \A j \in 1..(i - 1) : hist[j] \notin { "load_cookies", "manual_login" }
            /\ hist[i] = "manual_login" =>
                  /\ \A j \in 1..(i - 1) : hist[j] # "manual_login"
                  /\ \E k \in 1..(i - 1) :
                        \/ /\ hist[k] = "load_cookies:F"
                           /\ Probes(Between(k, i)) = << >>
                        \/ /\ hist[k] = "load_cookies:T"
                           /\ Probes(Between(k, i)) = << "is_logged_in:F" >>

C4_Witness ==
    /\ env = Unset
    /\ Has("manual_login")
    /\ Has("load_cookies:T")
    /\ pc = "ml_loop"

\* C5: for every value of the variable, ensure_logged_in takes the
\* cookie-only branch exactly when create_driver made the driver in remote
\* mode.
C5_ModeAgreement ==
    is_docker # "unset" => (is_docker = "T" <=> is_remote = "T")

\* C6: upload_video on a path that names no file returns failure at once:
\* no navigation, no ensure_logged_in, no cookie loaded or saved.
C6_MissingFileFailsAtOnce ==
    ~videoExists =>
        /\ \A i \in 1..Len(hist) :
                hist[i] \in { "connect:ok", "connect:fail", "sleep:2", "quit" }
        /\ pc \in { "uv_start", "main_uv_ret", "close" } => hist = << >>
        /\ pc = "main_done" => hist = << "quit" >>
        /\ url = Blank
        /\ is_docker = "unset"
        /\ lastProbe = "none"
        /\ injected = << >>
        /\ pc \in { "main_start", "cd_start", "cd_connect", "cd_local", "unwind",
                    "main_created", "uv_start", "main_uv_ret", "close", "main_done" }
        /\ pc \in { "main_uv_ret", "close", "main_done" } => result = "F"

C6_Witness ==
    /\ ~videoExists
    /\ pc = "main_uv_ret"
    /\ result = "F"
    /\ ret = "F"

EndsWithEllipsis(c) == Len(c) >= 3 /\ SubSeq(c, Len(c) - 2, Len(c)) = "..."

\* The caption as the claim words it: the title, then each tag with '#' put
\* before it, single spaces between the pieces.
RECURSIVE Hashtags(_)
Hashtags(tg) ==
    IF Len(tg) = 1 THEN "#" \o tg[1]
    ELSE Hashtags(SubSeq(tg, 1, Len(tg) - 1)) \o " #" \o tg[Len(tg)]

ExpectedCaption ==
    IF tags = << >> THEN title
    ELSE IF title = "" THEN Hashtags(tags)
    ELSE title \o " " \o Hashtags(tags)

\* C7: whenever the composed caption is longer than the configured maximum
\* (maxima below 3 included), the caption entered has exactly max_length
\* characters, ends in '...' and is not longer than max_length; a caption
\* that is not longer is entered unchanged.
C7_TruncatedToMaxLength ==
    entered # NotEntered =>
        IF Len(ExpectedCaption) > max_length
        THEN /\ Len(entered) = max_length
             /\ EndsWithEllipsis(entered)
             /\ Len(entered) <= max_length
        ELSE entered = ExpectedCaption

\* C8: the composed caption is the title followed by each tag prefixed with
\* '#', joined by single spaces in tag order; an empty title gives the
\* hashtags alone, an empty tag list the title alone, with no separator at
\* either end.
C8_CaptionComposition ==
    (pc # "fc_start" /\ Len(ExpectedCaption) <= max_length) =>
        /\ full_caption = ExpectedCaption
        /\ entered \in { NotEntered, ExpectedCaption }
        /\ (title = ExampleTitle /\ tags = ExampleTags) =>
              full_caption = "My trip #travel #summer"
        /\ tags = << >> => full_caption = title
        /\ (title = "" /\ tags # << >>) => SubSeq(full_caption, 1, 1) = "#"
        /\ (tags # << >>) =>
              SubSeq(full_caption, Len(full_caption) - Len(tags[Len(tags)]),
                     Len(full_caption)) = "#" \o tags[Len(tags)]

C8_Witness ==
    /\ pc = "caller_ret"
    /\ title = ExampleTitle
    /\ tags = ExampleTags
    /\ entered = "My trip #travel #summer"

\* C9: every record handed to add_cookie is the file's record at the same
\* position without its sameSite and storeId fields, every other field as
\* it is in the file.
C9_SanitizedBeforeInjection ==
    /\ Len(injected) <= Len(cookieFile.recs)
    /\ \A i \in 1..Len(injected) :
          /\ DOMAIN injected[i] = DOMAIN cookieFile.recs[i] \ StrippedFields
          /\ \A f \in DOMAIN injected[i] : injected[i][f] = cookieFile.recs[i][f]

C9_Witness ==
    /\ Len(injected) = 2
    /\ DOMAIN cookieFile.recs[1] = { "name", "value", "sameSite", "storeId" }
    /\ DOMAIN cookieFile.recs[2] = { "name", "value", "storeId" }
    /\ rejected = {}

\* C10: a record the browser rejects does not stop load_cookies: every later
\* record is still attempted in file order, the page is still refreshed and
\* the result is still True (unless the refresh itself raises), also when
\* every record was rejected.
C10_RejectionNotFatal ==
    /\ pc = "lc_loop" => Len(injected) = ci - 1
    /\ (rejected # {} /\ pc # "lc_loop") =>
          /\ Len(injected) = Len(cookieFile.recs)
          /\ \A i \in 1..Len(injected) : injected[i] = Sanitize(cookieFile.recs[i])
          /\ Has("refresh")
          /\ hist[Len(hist)] = "load_cookies:" \o B2S(~Has("refresh raised"))
          /\ ret = B2S(~Has("refresh raised"))

C10_Witness ==
    /\ pc = "caller_ret"
    /\ Len(cookieFile.recs) = 2
    /\ rejected = { 1, 2 }
    /\ ret = "T"
    /\ Has("refresh")

-----------------------------------------------------------------------------
(* The cookie round trip: save_cookies in a logged-in session, then
   load_cookies and is_logged_in in a fresh browser context on the same
   domain.  The site shows the login indicators exactly when the browser
   holds the session cookie. *)

RECURSIVE DistinctNames(_)
DistinctNames(js) ==
    \/ js = << >>
    \/ /\ \A i \in 2..Len(js) : js[i]["name"] # Head(js)["name"]
       /\ DistinctNames(Tail(js))

\* The jars of a logged-in browser: get_cookies returns one cookie per name.
SessionJars ==
    { js \in SeqsUpTo(Records, MaxCookies) : DistinctNames(js) /\ SessionHeld(js) }

InitRoundTrip ==
    /\ env = Unset
    /\ videoExists = TRUE
    /\ cookieFile \in { Absent, Corrupt, FileOf(<< Record("tt_csrf", {}) >>) }
    /\ jar \in SessionJars
    /\ title = ""
    /\ tags = << >>
    /\ max_length = DefaultMaxTitleLength
    /\ site = "session"
    /\ upload_timeout = 1
    /\ script = "main"
    /\ driver = "local"
    /\ is_remote = "F"
    /\ pc = "sc_start"
    /\ stack = << "rt_saved" >>
    /\ Quiet

\* A fresh browser context (no cookies, no page), in which load_cookies is called.
RoundTripFresh ==
    /\ pc = "rt_saved"
    /\ jar' = << >>
    /\ url' = Blank
    /\ Call("lc_start", "rt_loaded")
    /\ UNCHANGED << inputs, waitVars, cookieFile, mgr, is_docker, lcVars, sel, polls,
                    capVars, result, hist, lastProbe >>

\* The probe that follows the load.
RoundTripProbe ==
    /\ pc = "rt_loaded"
    /\ Call("ili_get", "caller_ret")
    /\ UNCHANGED << inputs, waitVars, cookieFile, jar, url, mgr, is_docker, lcVars, sel,
                    polls, capVars, result, hist, lastProbe >>

NextRoundTrip ==
    \/ SaveCookiesMkdir \/ SaveCookiesWrite \/ Unwind
    \/ RoundTripFresh
    \/ LoadCookiesStart \/ LoadCookiesGet \/ LoadCookiesRead
    \/ LoadCookiesInject \/ LoadCookiesRefresh
    \/ RoundTripProbe \/ IsLoggedInGet \/ IsLoggedInFind

SpecRoundTrip == InitRoundTrip /\ [][NextRoundTrip]_vars

\* The file's records as load_cookies hands them to add_cookie.
SanitizedFile == [i \in 1..Len(cookieFile.recs) |-> Sanitize(cookieFile.recs[i])]

-----------------------------------------------------------------------------
(* create_driver in remote mode *)

Count(e) == Cardinality({ i \in 1..Len(hist) : hist[i] = e })
Attempts == Count("connect:ok") + Count("connect:fail")

\* C20: in remote mode create_driver makes at most 30 connection attempts and
\* none after the first success; every failed attempt but the thirtieth is
\* followed by one 2-second sleep and then by the next attempt, and no sleep
\* follows a success or the thirtieth failure; when all 30 failed the
\* exception leaves create_driver with no driver handle stored.
C20_RemoteRetry ==
    /\ Attempts <= max_retries
    /\ Count("connect:ok") <= 1
    /\ \A i \in 1..Len(hist) :
        /\ hist[i] = "connect:ok" => i = Len(hist)
        /\ hist[i] = "connect:fail" =>
                IF Cardinality({ j \in 1..i : hist[j] = "connect:fail" }) < max_retries
                THEN /\ pc = "cd_connect" => i < Len(hist)
                     /\ i < Len(hist) => hist[i + 1] = "sleep:2"
                ELSE i = Len(hist)
        /\ hist[i] = "sleep:2" =>
                /\ i > 1 /\ hist[i - 1] = "connect:fail"
                /\ i < Len(hist) => hist[i + 1] \in { "connect:ok", "connect:fail" }
    /\ Count("connect:fail") = max_retries =>
            pc = "unwind" /\ driver = "none" /\ is_remote = "unset"
    /\ (pc = "unwind" /\ Has("connect:fail")) => Count("connect:fail") = max_retries
    /\ pc = "cd_connect" => Count("sleep:2") = attempt /\ Attempts = attempt

\* all thirty attempts failed
C20_Witness ==
    /\ pc = "unwind"
    /\ Count("connect:fail") = max_retries
    /\ Count("sleep:2") = max_retries - 1
    /\ driver = "none"

-----------------------------------------------------------------------------
(* _wait_for_upload alone, under every timeout of up to MaxUploadPolls polls *)

InitWait ==
    /\ env = Unset
    /\ videoExists = TRUE
    /\ cookieFile = Absent
    /\ jar = SiteJar
    /\ title = ""
    /\ tags = << >>
    /\ max_length = DefaultMaxTitleLength
    /\ site = "any"
    /\ upload_timeout \in 1..MaxUploadPolls
    /\ script = "main"
    /\ driver = "local"
    /\ is_remote = "F"
    /\ pc = "wfu_start"
    /\ stack = << "caller_ret" >>
    /\ Quiet

NextWait == WaitUploadStart \/ WaitUploadPoll \/ WaitUploadTimeout

SpecWait == InitWait /\ [][NextWait]_vars

\* _wait_for_upload has returned from inside its loop, not by the timeout.
CompletedBeforeTimeout == pc = "caller_ret" /\ ~Has("upload:timeout")

\* C12: _wait_for_upload reports completion before its timeout only when the
\* page showed a usable "post" button in each of the last 3 polls or more, or
\* when the "Edit cover" marker has appeared.
C12_DebouncedCompletion ==
    CompletedBeforeTimeout => (seen.streak >= PostThreshold \/ seen.marker)

\* C13: when the "Edit cover" marker was observed (here: often enough for
\* the counter to be at the threshold) and no usable "post" button ever was,
\* _wait_for_upload reports completion before its timeout.
C13_MarkerSuffices ==
    ( /\ pc = "caller_ret"
      /\ seen.marker
      /\ ~seen.post
      /\ post_found_count >= PostThreshold ) => ~Has("upload:timeout")

\* C14: a poll that observed an in-progress percentage leaves the counter at
\* 0 for the next poll.
C14_ProgressResets ==
    (pc = "wfu_poll" /\ seen.progress) => post_found_count = 0

\* a poll that saw a usable button, the marker and a percentage
C14_Witness ==
    /\ pc = "wfu_poll"
    /\ polls >= 2
    /\ seen.progress
    /\ seen.streak >= 2
    /\ seen.marker

-----------------------------------------------------------------------------
(* upload_video after its preflight: from the navigation to the upload page
   to its return, under every timeout of up to MaxUploadPolls polls *)

InitUpload ==
    /\ env = Unset
    /\ videoExists = TRUE
    /\ cookieFile = FileOf(SiteJar)
    /\ jar = SiteJar
    /\ \E request \in { << ExampleTitle, ExampleTags, 5 >>,
                         << "", << >>, DefaultMaxTitleLength >> } :
        title = request[1] /\ tags = request[2] /\ max_length = request[3]
    /\ site = "any"
    /\ upload_timeout \in 1..MaxUploadPolls
    /\ script = "main"
    /\ driver = "local"
    /\ is_remote = "F"
    /\ pc = "uv_navigate"
    /\ stack = << "main_uv_ret" >>
    /\ Quiet

NextUpload ==
    \/ UploadVideoNavigate \/ UploadVideoFindInput \/ UploadVideoFileInput
    \/ UploadVideoExcept \/ UploadVideoUploaded \/ UploadVideoContentCheck
    \/ UploadVideoCaptioned \/ UploadVideoClicked \/ UploadVideoWarned
    \/ UploadVideoConfirmed \/ Unwind
    \/ FindFileInputStart \/ FindFileInputSelector \/ FindFileInputScript
    \/ WaitUploadStart \/ WaitUploadPoll \/ WaitUploadTimeout
    \/ FillCaptionCompose \/ FillCaptionOverlay \/ FillCaptionSelector
    \/ FillCaptionScript
    \/ ClickPostButton
    \/ WarningPopupProbe \/ WarningPopupClose \/ WarningPopupRecheck
    \/ WarningPopupReclicked
    \/ PostCompleteStart \/ PostCompletePoll \/ PostCompleteTimeout

SpecUpload == InitUpload /\ [][NextUpload]_vars

Returned == pc = "main_uv_ret"
Clicks == Count("click_post:T") + Count("click_post:F")

\* The first call of _click_post_button returned True (False).
FirstClick(v) ==
    \E i \in 1..Len(hist) :
        /\ hist[i] = "click_post:" \o v
        /\ \A j \in 1..(i - 1) : hist[j] \notin { "click_post:T", "click_post:F" }

PopupStageRan == Has("content_check:dismissed") \/ Has("content_check:skipped")

\* C15: _wait_for_upload returns True also when it timed out, upload_video
\* never fails with "upload timed out", and after a timeout the popup, caption
\* and publish stages still run (unless an exception ends the workflow).
C15_TimeoutContinues ==
    /\ pc = "uv_uploaded" => ret = "T"
    /\ ~Has("upload timed out")
    /\ (Returned /\ Has("upload:timeout") /\ ~Has("raised")) =>
            /\ PopupStageRan
            /\ Has("_fill_caption")
            /\ Clicks >= 1

C15_Witness ==
    /\ Returned
    /\ Has("upload:timeout")
    /\ result = "T"
    /\ entered # NotEntered

\* C16 as claimed: after preflight an upload_video that fails without an
\* exception failed because the file input was not found.
C16_OnlyFileInputStops ==
    (Returned /\ result = "F" /\ ~Has("raised")) => Has("file_input:none")

\* C16: after preflight an upload_video that ends without an exception fails
\* exactly when the file input was not found or the first call of
\* _click_post_button found no publish control; a content-check popup not
\* dismissed, a caption not entered, a warning popup not closed and a
\* completion not confirmed do not make it fail.
C16_TwoHardStops ==
    (Returned /\ ~Has("raised")) =>
        /\ result \in { "T", "F" }
        /\ result = "F" <=> (Has("file_input:none") \/ FirstClick("F"))

\* every skippable stage came up empty and the upload is reported successful
C16_Witness ==
    /\ Returned
    /\ result = "T"
    /\ Has("content_check:skipped")
    /\ full_caption # ""
    /\ entered = NotEntered
    /\ Has("popup:found")
    /\ ~Has("popup:closed")
    /\ Has("confirm:timeout")

\* C17: _find_file_input returns None only after the five selectors and the
\* script; upload_video then returns False at once: no path was sent, no
\* caption entered, the publish control never looked for.
C17_NoFileInputStops ==
    /\ [](pc = "ffi_script" => sel = NumFileInputSelectors)
    /\ []((pc = "uv_input_ret" /\ ret = "none") => sel = NumFileInputSelectors)
    /\ [][(pc = "uv_input_ret" /\ ret = "none") =>
            (pc' = "main_uv_ret" /\ result' = "F")]_vars
    /\ [](Has("file_input:none") =>
            /\ Returned
            /\ result = "F"
            /\ hist = << "get:upload", "file_input:none" >>
            /\ entered = NotEntered)

C17_Witness ==
    /\ Returned
    /\ Has("file_input:none")
    /\ sel = NumFileInputSelectors
    /\ result = "F"

\* C18 as claimed: when _handle_warning_popups has returned, the publish
\* control was invoked twice if a popup was found and closed, once otherwise.
C18_ReclickExactlyOnce ==
    pc = "uv_warned" => Clicks = (IF Has("popup:closed") THEN 2 ELSE 1)

\* C19: when the first publish click succeeded and _wait_for_post_complete
\* ended by a confirmation or by its timeout, upload_video returns True.
C19_SuccessEitherWay ==
    ( /\ Returned
      /\ FirstClick("T")
      /\ \/ Has("confirm:redirected")
         \/ Has("confirm:marker")
         \/ Has("confirm:timeout") ) => result = "T"

C19_Witness ==
    /\ Returned
    /\ FirstClick("T")
    /\ Has("confirm:timeout")
    /\ url = UploadUrl
    /\ result = "T"

-----------------------------------------------------------------------------
(* A caller that makes up to MaxCalls calls of create_driver and close on one
   BrowserManager, in any order *)

InitClose ==
    /\ env \in { Unset, "" }
    /\ videoExists = TRUE
    /\ cookieFile = Absent
    /\ jar = << >>
    /\ title = ""
    /\ tags = << >>
    /\ max_length = DefaultMaxTitleLength
    /\ site = "any"
    /\ upload_timeout = 1
    /\ script = "main"
    /\ driver = "none"
    /\ is_remote = "unset"
    /\ pc = "caller_ret"
    /\ stack = << >>
    /\ Quiet

\* The caller's next call; the number of the call is kept in polls.
CallerCalls ==
    /\ pc = "caller_ret"
    /\ polls < MaxCalls
    /\ polls' = polls + 1
    /\ \E callee \in { "create_driver", "close" } :
        /\ Log(<< "call:" \o callee >>)
        /\ Call(IF callee = "close" THEN "close" ELSE "cd_start", "caller_ret")
    /\ UNCHANGED << inputs, waitVars, cookieFile, jar, url, mgr, is_docker, lcVars, sel,
                    capVars, result, lastProbe >>

\* An exception reached the caller, which goes on with its next call.
CallerCatches ==
    /\ pc = "caller_raised"
    /\ Log(<< "caught" >>)
    /\ Goto("caller_ret")
    /\ UNCHANGED << inputs, waitVars, cookieFile, jar, url, mgr, is_docker, lcVars, sel,
                    polls, capVars, result, lastProbe >>

NextClose ==
    \/ CallerCalls \/ CallerCatches \/ Unwind
    \/ CreateDriverStart \/ CreateDriverLocal \/ Close

SpecClose == InitClose /\ [][NextClose]_vars

\* The call numbered by the i-th event returned with a new driver: it was a
\* call of create_driver and the caller caught nothing after it.
Created(i) ==
    /\ hist[i] = "call:create_driver"
    /\ i < Len(hist) \/ pc = "caller_ret"
    /\ i < Len(hist) => hist[i + 1] # "caught"

\* C21: close without a handle (never created, or closed already) does no
\* browser operation; every quit belongs to a driver created before it that
\* no earlier quit has closed; an exception of quit never reaches the caller,
\* and after every close the manager holds no handle.
C21_CloseIdempotent ==
    /\ \A i \in 1..Len(hist) :
        hist[i] = "quit" =>
            /\ i > 1 /\ hist[i - 1] = "call:close"
            /\ \E j \in 1..(i - 1) :
                /\ Created(j)
                /\ \A k \in (j + 1)..(i - 1) : hist[k] # "quit"
    /\ \A i \in 1..Len(hist) :
        hist[i] = "caught" => hist[i - 1] = "call:create_driver"
    /\ pc \in { "unwind", "caller_raised" } => hist[Len(hist)] = "call:create_driver"
    /\ (pc = "caller_ret" /\ hist # << >> /\ hist[Len(hist)] \in { "call:close", "quit" })
            => driver = "none"

\* a driver was created and closed, and close was called again after that
C21_Witness ==
    /\ pc = "caller_ret"
    /\ Len(hist) >= 4
    /\ Has("quit")
    /\ hist[Len(hist)] = "call:close"
    /\ hist[Len(hist) - 1] = "call:close"
    /\ driver = "none"

-----------------------------------------------------------------------------
(* manual_login alone *)

InitManual ==
    /\ env = Unset
    /\ videoExists = TRUE
    /\ cookieFile \in { Absent, Corrupt, FileOf(SiteJar) }
    /\ jar \in { << >>, SiteJar }
    /\ title = ""
    /\ tags = << >>
    /\ max_length = DefaultMaxTitleLength
    /\ site \in { "any", "session" }
    /\ upload_timeout = 1
    /\ script = "main"
    /\ driver = "local"
    /\ is_remote = "F"
    /\ pc = "ml_start"
    /\ stack = << "caller_ret" >>
    /\ Quiet

NextManual ==
    \/ ManualLoginOpen \/ ManualLoginPoll \/ ManualLoginTimeout
    \/ ManualLoginProbed \/ ManualLoginSaved
    \/ IsLoggedInGet \/ IsLoggedInFind
    \/ SaveCookiesMkdir \/ SaveCookiesWrite \/ Unwind

SpecManual == InitManual /\ [][NextManual]_vars

\* C22: manual_login first opens the login page, then probes; a probe that
\* reported logged-in is the last probe and is followed at once by the only
\* call of save_cookies; True is returned only after such a probe and that
\* call; False is returned only after at least one probe, none of which
\* reported logged-in, and with save_cookies never called.
C22_ManualLoginPolling ==
    /\ Len(hist) >= 2 => hist[1] = "manual_login" /\ hist[2] = "get:login"
    /\ Count("get:login") <= 1
    /\ Count("save_cookies") <= 1
    /\ \A i \in 1..Len(hist) :
        /\ hist[i] = "is_logged_in:T" =>
                /\ Probes(SubSeq(hist, i + 1, Len(hist))) = << >>
                /\ i < Len(hist) => hist[i + 1] = "save_cookies"
        /\ hist[i] = "save_cookies" => hist[i - 1] = "is_logged_in:T"
    /\ (pc = "caller_ret" /\ ret = "T") =>
            /\ Has("is_logged_in:T")
            /\ Count("save_cookies") = 1
            /\ hist[Len(hist)] = "manual_login:T"
    /\ (pc = "caller_ret" /\ ret = "F") =>
            /\ Probes(hist) # << >>
            /\ ~Has("is_logged_in:T")
            /\ ~Has("save_cookies")
    /\ pc = "caller_ret" => ret \in { "T", "F" }

\* the user logged in between two probes
C22_Witness ==
    /\ pc = "caller_ret"
    /\ ret = "T"
    /\ Has("is_logged_in:F")
    /\ Count("save_cookies") = 1

-----------------------------------------------------------------------------
(* The best-effort stages of upload_video *)

\* Where control is during the content-check popup, the caption stage and
\* the restriction-warning popup.
BestEffortLabels ==
    { "uv_content_check", "fc_start", "fc_overlay", "fc_selector", "fc_script",
      "wp_start", "wp_close", "wp_recheck", "wp_reclicked" }

\* C23: no step of the content-check popup, the caption stage (overlay
\* removal, editor probes, script) or the restriction-warning popup ends
\* upload_video or raises; every run in which the upload wait returned has
\* invoked the publish control by the time upload_video returns; and the
\* result is True exactly when the first click succeeded and no exception
\* was raised afterwards, whatever those stages found.
C23_BestEffortStages ==
    /\ [][(pc \in BestEffortLabels) =>
            (pc' # "uv_except" /\ pc' # "unwind" /\ pc' # "main_uv_ret")]_vars
    /\ []((Returned /\ Has("_wait_for_upload:T")) =>
            /\ Clicks >= 1
            /\ (result = "T") <=> (FirstClick("T") /\ ~Has("raised")))

\* nothing dismissed, no caption entered, no warning popup: success
C23_Witness ==
    /\ Returned
    /\ Has("content_check:skipped")
    /\ full_caption # ""
    /\ entered = NotEntered
    /\ ~Has("popup:found")
    /\ Has("confirm:redirected")
    /\ result = "T"

-----------------------------------------------------------------------------
(* The operator entry scripts: export_cookies.py, login_only.py and
   open_browser.py.  KeyboardInterrupt can arrive at any statement. *)

Scripts == { "export_cookies", "login_only", "open_browser" }
ProfileUrl == "https://www.tiktok.com/profile"

\* try: browser_manager = BrowserManager(config["browser"])
ScriptStart ==
    /\ pc = "es_start"
    /\ \E outcome \in { "constructed", "raised", "interrupt" } :
        CASE outcome = "constructed" -> Log(<< "manager" >>) /\ Goto("es_create")
          [] outcome = "raised" -> UNCHANGED hist /\ Goto("es_except")
          [] OTHER -> UNCHANGED hist /\ Goto("es_interrupted")
    /\ UNCHANGED << inputs, waitVars, cookieFile, jar, url, mgr, is_docker, lcVars, sel,
                    polls, capVars, result, lastProbe >>

\* driver = browser_manager.create_driver()
ScriptCreate ==
    /\ pc = "es_create"
    /\ \E interrupted \in BOOLEAN :
        IF interrupted THEN Goto("es_interrupted") ELSE Call("cd_start", "es_created")
    /\ UNCHANGED << inputs, waitVars, cookieFile, jar, url, mgr, is_docker, lcVars, sel,
                    polls, capVars, result, hist, lastProbe >>

\* create_driver returned; driver.get of the login page (of the profile page
\* in open_browser.py).
ScriptOpenPage ==
    /\ pc = "es_created"
    /\ Log(<< "created" >>)
    /\ \E outcome \in { "loaded", "raised", "interrupt" } :
        CASE outcome = "loaded" ->
                /\ url' = IF script = "open_browser" THEN ProfileUrl ELSE LoginUrl
                /\ Goto("es_wait")
          [] outcome = "raised" -> UNCHANGED url /\ Goto("es_except")
          [] OTHER -> UNCHANGED url /\ Goto("es_interrupted")
    /\ UNCHANGED << inputs, waitVars, cookieFile, jar, mgr, is_docker, lcVars, sel, polls,
                    capVars, result, lastProbe >>

\* input("Press Enter ...") while the user logs in or not; open_browser.py
\* sleeps in `while True` instead, which only an interrupt ends.  After
\* Enter: export_cookies.py sleeps and calls save_cookies, login_only.py
\* goes on to read driver.current_url.
ScriptWait ==
    /\ pc = "es_wait"
    /\ \E outcome \in IF script = "open_browser" THEN { "interrupt" }
                       ELSE { "enter", "raised", "interrupt" } :
        CASE outcome = "enter" ->
                /\ \E userLoggedIn \in BOOLEAN :
                    jar' = IF userLoggedIn THEN SiteJar ELSE jar
                /\ IF script = "export_cookies"
                   THEN Call("sc_start", "es_saved")
                   ELSE Goto("es_verify")
          [] outcome = "raised" -> UNCHANGED jar /\ Goto("es_except")
          [] OTHER -> UNCHANGED jar /\ Goto("es_interrupted")
    /\ UNCHANGED << inputs, waitVars, cookieFile, url, mgr, is_docker, lcVars, sel, polls,
                    capVars, result, hist, lastProbe >>

\* login_only.py: current_url = driver.current_url, then only logging.
ScriptVerify ==
    /\ pc = "es_verify"
    /\ \E outcome \in { "read", "raised", "interrupt" } :
        CASE outcome = "read" -> Goto("es_finally")
          [] outcome = "raised" -> Goto("es_except")
          [] OTHER -> Goto("es_interrupted")
    /\ UNCHANGED << inputs, waitVars, cookieFile, jar, url, mgr, is_docker, lcVars, sel,
                    polls, capVars, result, hist, lastProbe >>

ScriptSaved_FailureExitsZero ==
    /\ pc = "es_saved"
    /\ Goto("es_finally")
    /\ UNCHANGED << inputs, waitVars, cookieFile, jar, url, mgr, is_docker, lcVars, sel,
                    polls, capVars, result, hist, lastProbe >>

\* export_cookies.py: if login_manager.save_cookies(cookie_file): ... else:
\* return 1 (the finally block runs before the return takes effect).
ScriptSaved ==
    /\ pc = "es_saved"
    /\ result' = IF ret = "T" THEN result ELSE "1"
    /\ Goto("es_finally")
    /\ UNCHANGED << inputs, waitVars, cookieFile, jar, url, mgr, is_docker, lcVars, sel,
                    polls, capVars, hist, lastProbe >>

\* except Exception: logger.exception, return 1.  open_browser.py has no
\* such clause: the exception goes through finally and ends the process.
ScriptExcept ==
    /\ pc = "es_except"
    /\ Log(<< "exception" >>)
    /\ result' = IF script = "open_browser" THEN "raised" ELSE "1"
    /\ Goto("es_finally")
    /\ UNCHANGED << inputs, waitVars, cookieFile, jar, url, mgr, is_docker, lcVars, sel,
                    polls, capVars, lastProbe >>

\* except KeyboardInterrupt: a log line, then finally and the code after it.
ScriptInterrupted ==
    /\ pc = "es_interrupted"
    /\ Log(<< "interrupt" >>)
    /\ Goto("es_finally")
    /\ UNCHANGED << inputs, waitVars, cookieFile, jar, url, mgr, is_docker, lcVars, sel,
                    polls, capVars, result, lastProbe >>

ScriptFinally_SkipsCloseOnInterrupt ==
    /\ pc = "es_finally"
    /\ \E interruptedAgain \in BOOLEAN :
        IF interruptedAgain
        THEN Log(<< "interrupt in finally" >>) /\ result' = "interrupted" /\ Goto("es_exit")
        ELSE /\ UNCHANGED result
             /\ IF Has("manager") /\ ~Has("interrupt")
                THEN Log(<< "call:close" >>) /\ Call("close", "es_closed")
                ELSE UNCHANGED hist /\ Goto("es_closed")
    /\ UNCHANGED << inputs, waitVars, cookieFile, jar, url, mgr, is_docker, lcVars, sel,
                    polls, capVars, lastProbe >>

\* finally: if browser_manager: browser_manager.close().  A further
\* KeyboardInterrupt that arrives in the block before the call ends the
\* process at once.
ScriptFinally ==
    /\ pc = "es_finally"
    /\ \E interruptedAgain \in BOOLEAN :
        IF interruptedAgain
        THEN Log(<< "interrupt in finally" >>) /\ result' = "interrupted" /\ Goto("es_exit")
        ELSE /\ UNCHANGED result
             /\ IF Has("manager")
                THEN Log(<< "call:close" >>) /\ Call("close", "es_closed")
                ELSE UNCHANGED hist /\ Goto("es_closed")
    /\ UNCHANGED << inputs, waitVars, cookieFile, jar, url, mgr, is_docker, lcVars, sel,
                    polls, capVars, lastProbe >>

\* After finally: the pending return value or exception takes effect, else
\* return 0 (open_browser.py returns None); the process exits with it.
ScriptExit ==
    /\ pc = "es_closed"
    /\ result' = IF result = "none" THEN "0" ELSE result
    /\ Goto("es_exit")
    /\ UNCHANGED << inputs, waitVars, cookieFile, jar, url, mgr, is_docker, lcVars, sel,
                    polls, capVars, hist, lastProbe >>

InitScripts ==
    /\ env \in EnvValues
    /\ videoExists = TRUE
    /\ cookieFile \in { Absent, FileOf(<< >>) }
    /\ jar \in { << >>, SiteJar }
    /\ title = ""
    /\ tags = << >>
    /\ max_length = DefaultMaxTitleLength
    /\ site = "any"
    /\ upload_timeout = 1
    /\ script \in Scripts
    /\ driver = "none"
    /\ is_remote = "unset"
    /\ pc = "es_start"
    /\ stack = << >>
    /\ Quiet

NextScripts ==
    \/ ScriptStart \/ ScriptCreate \/ ScriptOpenPage \/ ScriptWait \/ ScriptVerify
    \/ ScriptSaved \/ ScriptExcept \/ ScriptInterrupted \/ ScriptFinally \/ ScriptExit
    \/ CreateDriverStart \/ CreateDriverConnect \/ CreateDriverLocal
    \/ SaveCookiesMkdir \/ SaveCookiesWrite \/ Close \/ Unwind

SpecScripts == InitScripts /\ [][NextScripts]_vars

Exited == pc = "es_exit"

-----------------------------------------------------------------------------
(* is_logged_in, as manual_login calls it *)

\* The running is_logged_in returns v to its caller in this step.
ProbeReturns(v) ==
    /\ pc' = Head(stack)
    /\ ret' = v
    /\ lastProbe' = v
    /\ hist' = Append(hist, "is_logged_in:" \o v)

\* C26: is_logged_in first navigates to the base URL; when that raises it
\* returns False, otherwise it probes selector 1; a probe that finds an
\* element returns True at once, a probe that raises moves to the next
\* selector, and only the third selector raising returns False; no step
\* raises to the caller.
C26_ProbeOrder ==
    /\ [](pc = "ili_find" => (sel \in 1..NumLoginIndicators /\ url = BaseUrl))
    /\ [][(pc = "ili_get") =>
            \/ pc' = "ili_find" /\ sel' = 1 /\ url' = BaseUrl
            \/ hist' = hist \o << "get:base", "is_logged_in:F" >>
               /\ pc' = Head(stack) /\ ret' = "F" /\ url' = url]_vars
    /\ [][(pc = "ili_find") =>
            \/ ProbeReturns("T") /\ sel' = sel
            \/ pc' = "ili_find" /\ sel' = sel + 1 /\ hist' = hist
            \/ ProbeReturns("F") /\ sel = NumLoginIndicators]_vars

\* the first two look-ups raised and the third found the profile link
C26_Witness ==
    /\ pc = "ml_probed"
    /\ ret = "T"
    /\ sel = NumLoginIndicators
    /\ url = BaseUrl

-----------------------------------------------------------------------------
(* The order of the steps of load_cookies *)

\* Position of the first event e of the log (0 when there is none).
First(e) ==
    IF Has(e) THEN CHOOSE i \in 1..Len(hist) : hist[i] = e /\ \A j \in 1..(i - 1) : hist[j] # e
    ELSE 0

\* C27: load_cookies navigates once, before it reads the file and before any
\* add_cookie; it refreshes once, after add_cookie was attempted for every
\* record of the file, and nothing is injected after the refresh; with the
\* cookie file absent it returns False without navigating, injecting or
\* refreshing.
C27_LoadOrder ==
    /\ Count("get:base") <= 1
    /\ Count("refresh") <= 1
    /\ \A i \in 1..Len(hist) :
        hist[i] \in { "read_file", "add_cookie", "refresh" } =>
            (url = BaseUrl /\ Has("get:base") /\ First("get:base") < i)
    /\ Has("refresh") =>
            /\ cookieFile.kind = "ok"
            /\ Count("add_cookie") = Len(cookieFile.recs)
            /\ Len(injected) = Len(cookieFile.recs)
            /\ \A i \in 1..Len(hist) : hist[i] = "add_cookie" => i < First("refresh")
    /\ cookieFile.kind = "absent" =>
            /\ \A i \in 1..Len(hist) : hist[i] \in { "load_cookies", "load_cookies:F" }
            /\ url = Blank
            /\ injected = << >>
            /\ pc = "caller_ret" => ret = "F"

\* two records, one of them rejected, then the refresh
C27_Witness ==
    /\ pc = "caller_ret"
    /\ Count("add_cookie") = 2
    /\ rejected # {}
    /\ Has("refresh")
    /\ ret = "T"

-----------------------------------------------------------------------------
(* The order of the probes of _find_file_input *)

\* C28: _find_file_input starts with selector 1; a selector that matches
\* returns its element at once, one that times out moves to the next
\* selector, and only the fifth timing out leads to the script query, which
\* returns an element or None; so None is returned only after all five
\* selectors and the script.  (An exception other than the timeout leaves
\* the function without a return value.)
C28_FileInputOrder ==
    /\ [](pc = "ffi_selector" => sel \in 1..NumFileInputSelectors)
    /\ []((pc = "uv_input_ret" /\ ret = "none") => sel = NumFileInputSelectors)
    /\ [][(pc = "ffi_start") =>
            \/ pc' = "ffi_selector" /\ sel' = 1
            \/ pc' = "unwind"]_vars
    /\ [][(pc = "ffi_selector") =>
            \/ pc' = Head(stack) /\ ret' = "elem" /\ sel' = sel
            \/ sel < NumFileInputSelectors /\ pc' = "ffi_selector" /\ sel' = sel + 1
            \/ sel = NumFileInputSelectors /\ pc' = "ffi_script" /\ sel' = sel
            \/ pc' = "unwind"]_vars
    /\ [][(pc = "ffi_script") =>
            (pc' = Head(stack) /\ ret' \in { "elem", "none" } /\ sel' = sel)]_vars

\* the third selector matched after two timed out
C28_Witness ==
    /\ pc = "uv_input_ret"
    /\ ret = "elem"
    /\ sel = 3

-----------------------------------------------------------------------------
(* The order of the stages of upload_video *)

Confirmations == { "confirm:redirected", "confirm:marker", "confirm:timeout" }
ClickEvents == { "click_post:T", "click_post:F" }
CaptionEntries == { "send_keys:caption", "script:caption" }
ContentChecks == { "content_check:dismissed", "content_check:skipped" }

\* The events one of which has to precede the stage event e.
StageBefore(e) ==
    CASE e = "get:upload" -> { "ensure_logged_in:T" }
      [] e = "send_keys:path" -> { "get:upload" }
      [] e = "_wait_for_upload:T" -> { "send_keys:path" }
      [] e \in ContentChecks -> { "_wait_for_upload:T" }
      [] e = "_fill_caption" -> ContentChecks
      [] e \in CaptionEntries -> { "_fill_caption" }
      [] e = "_fill_caption:done" -> { "_fill_caption" }
      [] e \in ClickEvents -> { "_fill_caption:done" }
      [] e \in Confirmations -> { "click_post:T" }
      [] OTHER -> {}

\* The events none of which may precede the stage event e.
StageNotBefore(e) ==
    CASE e \in ContentChecks -> ContentChecks
      [] e \in CaptionEntries -> CaptionEntries \cup { "_fill_caption:done" }
      [] e \in Confirmations -> Confirmations
      [] e \in ClickEvents -> Confirmations
      [] e \in { "ensure_logged_in", "get:upload", "send_keys:path", "_wait_for_upload:T",
                 "_fill_caption", "_fill_caption:done" } -> { e }
      [] OTHER -> {}

\* The k-th event of the log h is in its place in the pipeline.
InPipelineOrder(h, k) ==
    /\ StageBefore(h[k]) # {} => \E j \in 1..(k - 1) : h[j] \in StageBefore(h[k])
    /\ \A j \in 1..(k - 1) : h[j] \notin StageNotBefore(h[k])
    /\ h[k] \in ClickEvents =>
            Cardinality({ j \in 1..(k - 1) : h[j] \in ClickEvents }) <= 1
    /\ h[k] \in Confirmations =>
            \E j \in 1..(k - 1) :
                /\ h[j] = "click_post:T"
                /\ \A i \in 1..(j - 1) : h[i] \notin ClickEvents

\* C29: in every run of upload_video each stage happens at most once (the
\* publish click at most twice) and in the pipeline order: the path is sent
\* only after ensure_logged_in returned True and the upload page was opened;
\* the upload wait follows it; the caption stage starts only after the wait
\* returned, and any text is entered inside it; the publish control is first
\* invoked only after the caption stage finished; the confirmation runs
\* only after the first click reported success, and no click follows it.
C29_PipelineOrder ==
    /\ [][\A k \in (Len(hist) + 1)..Len(hist') : InPipelineOrder(hist', k)]_vars
    /\ [](/\ (pc \in { "ffi_start", "ffi_selector", "ffi_script" }) =>
                (Has("get:upload") /\ ~Has("send_keys:path"))
          /\ (pc \in { "wfu_start", "wfu_poll" }) =>
                (Has("send_keys:path") /\ ~Has("_wait_for_upload:T"))
          /\ (pc \in { "fc_start", "fc_overlay", "fc_selector", "fc_script" }) =>
                (Has("_wait_for_upload:T") /\ Clicks = 0)
          /\ (pc \in { "wpc_start", "wpc_poll" }) => FirstClick("T"))

\* a run with a caption, a warning popup closed, two clicks and a confirmation
C29_Witness ==
    /\ pc = "main_uv_ret"
    /\ Has("ensure_logged_in:T")
    /\ entered # NotEntered
    /\ Clicks = 2
    /\ Has("confirm:marker")
    /\ result = "T"

\* C30: upload_video reports every failure as a False return value and
\* never raises to its caller, whatever the browser does in any stage, the
\* login check before the guarded pipeline included: no run reaches the
\* caller's handling of an exception out of upload_video.
C30_NeverRaises == pc # "main_uv_raised"

\* C31: _wait_for_upload never reports completion before its timeout in a
\* poll in which an in-progress percentage (other than "100%") is on the
\* page: the observation blocks completion in the same poll.
C31_ProgressBlocksSamePoll == CompletedBeforeTimeout => ~seen.progress

-----------------------------------------------------------------------------
(* The pages manual_login loads *)

\* C32: manual_login loads the login page exactly once, as its first act;
\* every poll issues one navigation to the base URL through is_logged_in, to
\* the last poll before success or timeout; a navigation that loads leaves
\* the browser on the base URL during the whole probe; the browser comes
\* back to the login page only by the user's hand between two polls.
C32_LoginPageOnce ==
    /\ [](/\ Len(hist) >= 2 => hist[2] = "get:login"
          /\ Count("get:login") <= 1
          /\ pc # "ml_start" => Count("get:login") = 1
          /\ Count("get:base") = (IF pc = "ili_get" THEN polls - 1 ELSE polls)
          /\ pc = "ili_find" => url = BaseUrl
          /\ (pc \in { "ml_probed", "sc_start", "sc_write", "ml_saved" } /\ lastProbe = "T") =>
                url = BaseUrl
          /\ (pc = "caller_ret" /\ ret = "T") => url = BaseUrl
          /\ (pc = "caller_ret" /\ ret \in { "T", "F" }) =>
                (polls >= 1 /\ Count("get:base") = polls)
          /\ url \in { Blank, LoginUrl, BaseUrl })
    /\ [][/\ (pc = "ili_get" /\ pc' = "ili_find") => url' = BaseUrl
          /\ (url' = LoginUrl /\ url # LoginUrl) =>
                (pc \in { "ml_start", "ml_probed" })
          /\ (pc = "ml_loop" /\ polls' # polls) => pc' = "ili_get"]_vars

\* two polls, each on the base URL, and the timeout
C32_Witness ==
    /\ pc = "caller_ret"
    /\ ret = "F"
    /\ polls = MaxPolls
    /\ Count("get:base") = 2
    /\ Count("get:login") = 1
    /\ url = BaseUrl

====
